---------------------------- MODULE Spec2Model ----------------------------
(***************************************************************************)
(* A model of pyaddict's schema validation engine.                         *)
(*                                                                         *)
(* The concrete schema types (String, Integer, Float, Boolean, Object,     *)
(* Array) are translated from src/pyaddict/schema/schema.py; the modifier  *)
(* traits they call (ISchemaType._coerceValue, IWithEnum, IWithLength) and *)
(* the result type (ValidationResult, ValidationError) are translated from *)
(* the package's base.py and result.py. schema.py's own older copies of    *)
(* the traits are translated separately under names starting with Legacy.  *)
(*                                                                         *)
(* Python values are tagged records [t, v]:                                *)
(*   None  [t |-> "none",  v |-> 0]                                        *)
(*   bool  [t |-> "bool",  v |-> TRUE / FALSE]                             *)
(*   int   [t |-> "int",   v |-> n]                                        *)
(*   float [t |-> "float", v |-> h]    the float h/2 (multiples of 0.5)    *)
(*   str   [t |-> "str",   v |-> <<c1, ..., cn>>]   one string per char    *)
(*   list  [t |-> "list",  v |-> <<x1, ..., xn>>]                          *)
(*   dict  [t |-> "dict",  v |-> <<[k |-> key, val |-> x], ...>>]          *)
(*         in insertion order, keys pairwise different                     *)
(* An Optional[...] attribute of the code is <<>> for None and <<x>> for a *)
(* set value x.                                                            *)
(***************************************************************************)
EXTENDS Integers, Sequences, FiniteSets, TLC

VARIABLES
    schema,     \* the schema node under configuration / in use
    fields,     \* the {key: schema} body collected for the next Object(...)
    input,      \* the caller's value object handed to validate (None before)
    called,     \* the value as it was when validate was called
    before,     \* the schema as it was when validate was called
    outcome,    \* what the last validate call did (see NoCall, Validate)
    legacy,     \* schema.py's own copy of the traits (IWithEnum, optional(),
                \* update), driven by the same calls and handed the same values
    use,        \* what the caller did with the result of the last call (see NoUse)
    access,     \* a JDict / JList of the caller and its last accessor call (see NoAccess)
    run         \* a validate call followed call by call: its stack of frames (see NoRun)

schemaVars == <<schema, fields, input, called, before, outcome, legacy, use, run>>
vars == <<schema, fields, input, called, before, outcome, legacy, use, access, run>>

-----------------------------------------------------------------------------
(* Bounds of the model *)

\* min(..) and max(..) are given 0..MaxBound; integer inputs are 0..MaxBound + 1
MaxBound == 2
\* an Object(...) body declares at most MaxFields fields
MaxFields == 2
\* a schema tree has at most MaxNodes schema nodes
MaxNodes == 3
\* at most MaxModifiers modifiers (nullable, optional, coerce, default, enum,
\* min, max, regex) are set in a schema tree
MaxModifiers == 3

-----------------------------------------------------------------------------
(* Python values *)

NoneV == [t |-> "none", v |-> 0]
BoolV(b) == [t |-> "bool", v |-> b]
IntV(n) == [t |-> "int", v |-> n]
FloatV(h) == [t |-> "float", v |-> h]
StrV(cs) == [t |-> "str", v |-> cs]
ListV(xs) == [t |-> "list", v |-> xs]
DictV(kvs) == [t |-> "dict", v |-> kvs]

IsNone(x) == x.t = "none"
IsNumber(x) == x.t \in {"bool", "int", "float"}

\* the numeric value of a bool/int/float, in halves
Halves(x) ==
    CASE x.t = "bool" -> IF x.v THEN 2 ELSE 0
      [] x.t = "int" -> 2 * x.v
      [] x.t = "float" -> x.v

Digits == <<"0", "1", "2", "3", "4", "5", "6", "7", "8", "9">>
UpperAlpha == <<"A", "B", "C", "D", "E", "F", "G", "H", "I", "J", "K", "L", "M",
                "N", "O", "P", "Q", "R", "S", "T", "U", "V", "W", "X", "Y", "Z">>
LowerAlpha == <<"a", "b", "c", "d", "e", "f", "g", "h", "i", "j", "k", "l", "m",
                "n", "o", "p", "q", "r", "s", "t", "u", "v", "w", "x", "y", "z">>

IsDigit(c) == \E i \in 1..10 : Digits[i] = c
DigitVal(c) == (CHOOSE i \in 1..10 : Digits[i] = c) - 1
IsUpper(c) == \E i \in 1..26 : UpperAlpha[i] = c
IsLower(c) == \E i \in 1..26 : LowerAlpha[i] = c
IsSpace(c) == c \in {" ", "\t", "\n"}

\* str.lower()
LowerChar(c) == IF IsUpper(c) THEN LowerAlpha[CHOOSE i \in 1..26 : UpperAlpha[i] = c] ELSE c
Lower(cs) == [i \in 1..Len(cs) |-> LowerChar(cs[i])]

\* str.strip() of whitespace
RECURSIVE LStrip(_)
LStrip(cs) == IF cs # <<>> /\ IsSpace(Head(cs)) THEN LStrip(Tail(cs)) ELSE cs
RECURSIVE RStrip(_)
RStrip(cs) ==
    IF cs # <<>> /\ IsSpace(cs[Len(cs)]) THEN RStrip(SubSeq(cs, 1, Len(cs) - 1)) ELSE cs
Strip(cs) == RStrip(LStrip(cs))

\* Python == on values (numbers compare by value across bool/int/float)
RECURSIVE PyEq(_, _)
PyEq(a, b) ==
    CASE IsNumber(a) /\ IsNumber(b) -> Halves(a) = Halves(b)
      [] IsNone(a) /\ IsNone(b) -> TRUE
      [] a.t = "str" /\ b.t = "str" -> a.v = b.v
      [] a.t = "list" /\ b.t = "list" ->
            /\ Len(a.v) = Len(b.v)
            /\ \A i \in 1..Len(a.v) : PyEq(a.v[i], b.v[i])
      [] a.t = "dict" /\ b.t = "dict" ->
            /\ Len(a.v) = Len(b.v)
            /\ \A i \in 1..Len(a.v) : \E j \in 1..Len(b.v) :
                    PyEq(a.v[i].k, b.v[j].k) /\ PyEq(a.v[i].val, b.v[j].val)
      [] OTHER -> FALSE

\* x in [v1, ..., vn]
InList(x, xs) == \E i \in 1..Len(xs) : PyEq(x, xs[i])

\* key in mapping, mapping[key], mapping[key] = val (insertion order kept)
HasKey(d, key) == \E i \in 1..Len(d.v) : PyEq(d.v[i].k, key)
KeyIndex(d, key) == CHOOSE i \in 1..Len(d.v) : PyEq(d.v[i].k, key)
GetItem(d, key) == d.v[KeyIndex(d, key)].val
SetItem(d, key, val) ==
    IF HasKey(d, key)
    THEN DictV([d.v EXCEPT ![KeyIndex(d, key)] = [k |-> d.v[KeyIndex(d, key)].k, val |-> val]])
    ELSE DictV(Append(d.v, [k |-> key, val |-> val]))


-----------------------------------------------------------------------------
(* Python conversions.  Each returns [exc, val]: exc = "none" and the value, *)
(* or the exception the call raises.  "OutOfModel" marks a text form that   *)
(* Python accepts and the float representation here cannot hold.            *)

Returns(val) == [exc |-> "none", val |-> val]
Raises(exc) == [exc |-> exc, val |-> NoneV]

\* a local variable of the code: v is computed once and F goes on with it
With(v, F(_)) == F(v)

\* the decimal digits of n >= 0
RECURSIVE NatChars(_)
NatChars(n) == IF n < 10 THEN <<Digits[n + 1]>> ELSE NatChars(n \div 10) \o <<Digits[(n % 10) + 1]>>
IntChars(n) == IF n < 0 THEN <<"-">> \o NatChars(-n) ELSE NatChars(n)
\* repr of the float h/2: "1.0", "1.5", "-0.5"
FloatChars(h) ==
    LET a == IF h < 0 THEN -h ELSE h
    IN (IF h < 0 THEN <<"-">> ELSE <<>>) \o NatChars(a \div 2)
            \o <<".">> \o (IF a % 2 = 1 THEN <<"5">> ELSE <<"0">>)

\* the characters of a text inside its repr quotes q: backslash, newline, tab
\* and the quote itself are escaped
RECURSIVE ReprChars(_, _)
ReprChars(cs, q) ==
    IF cs = <<>> THEN <<>>
    ELSE (CASE Head(cs) = "\\" -> <<"\\", "\\">>
            [] Head(cs) = "\n" -> <<"\\", "n">>
            [] Head(cs) = "\t" -> <<"\\", "t">>
            [] Head(cs) = q -> <<"\\", q>>
            [] OTHER -> <<Head(cs)>>) \o ReprChars(Tail(cs), q)

\* repr(x), as str() of a container formats its elements
RECURSIVE Repr(_)
RECURSIVE ReprJoin(_, _)
ReprJoin(parts, i) ==
    IF i > Len(parts) THEN <<>>
    ELSE (IF i > 1 THEN <<",", " ">> ELSE <<>>) \o parts[i] \o ReprJoin(parts, i + 1)
Repr(x) ==
    CASE x.t = "none" -> <<"N", "o", "n", "e">>
      [] x.t = "bool" -> IF x.v THEN <<"T", "r", "u", "e">> ELSE <<"F", "a", "l", "s", "e">>
      [] x.t = "int" -> IntChars(x.v)
      [] x.t = "float" -> FloatChars(x.v)
      [] x.t = "str" ->
            LET q == IF (\E i \in 1..Len(x.v) : x.v[i] = "'")
                        /\ ~(\E i \in 1..Len(x.v) : x.v[i] = "\"")
                     THEN "\"" ELSE "'"
            IN <<q>> \o ReprChars(x.v, q) \o <<q>>
      [] x.t = "list" ->
            <<"[">> \o ReprJoin([i \in 1..Len(x.v) |-> Repr(x.v[i])], 1) \o <<"]">>
      [] x.t = "dict" ->
            <<"{">> \o ReprJoin([i \in 1..Len(x.v) |->
                            Repr(x.v[i].k) \o <<":", " ">> \o Repr(x.v[i].val)], 1) \o <<"}">>

\* str(x)
ToStr(x) == Returns(StrV(IF x.t = "str" THEN x.v ELSE Repr(x)))

\* digits, single underscores allowed between digits: [ok, n]
RECURSIVE ParseDigits(_, _, _)
ParseDigits(cs, acc, prevDigit) ==
    IF cs = <<>> THEN [ok |-> prevDigit, n |-> acc]
    ELSE IF IsDigit(Head(cs)) THEN ParseDigits(Tail(cs), 10 * acc + DigitVal(Head(cs)), TRUE)
    ELSE IF Head(cs) = "_" /\ prevDigit THEN ParseDigits(Tail(cs), acc, FALSE)
    ELSE [ok |-> FALSE, n |-> 0]

\* int(text): whitespace stripped, optional sign, decimal digits
ParseInt(cs) ==
    LET s == Strip(cs)
        neg == s # <<>> /\ Head(s) = "-"
        body == IF s # <<>> /\ Head(s) \in {"-", "+"} THEN Tail(s) ELSE s
        d == ParseDigits(body, 0, FALSE)
    IN IF d.ok THEN Returns(IntV(IF neg THEN -d.n ELSE d.n)) ELSE Raises("ValueError")

\* int(x)
ToInt(x) ==
    CASE x.t = "bool" -> Returns(IntV(IF x.v THEN 1 ELSE 0))
      [] x.t = "int" -> Returns(x)
      [] x.t = "float" ->      \* truncation toward zero
            Returns(IntV(IF x.v < 0 THEN -((-x.v) \div 2) ELSE x.v \div 2))
      [] x.t = "str" -> ParseInt(x.v)
      [] OTHER -> Raises("TypeError")

\* the index of the first "." of cs, or 0
DotAt(cs) == IF \E i \in 1..Len(cs) : cs[i] = "."
             THEN CHOOSE i \in 1..Len(cs) : cs[i] = "." /\ \A j \in 1..(i - 1) : cs[j] # "."
             ELSE 0

\* the fraction digits as halves: [ok, h]; ok is FALSE off the 0.5 grid
FracHalves(cs) ==
    IF \A i \in 1..Len(cs) : cs[i] = "0" THEN [ok |-> TRUE, h |-> 0]
    ELSE IF cs[1] = "5" /\ \A i \in 2..Len(cs) : cs[i] = "0" THEN [ok |-> TRUE, h |-> 1]
    ELSE [ok |-> FALSE, h |-> 0]

\* float(text): whitespace stripped, optional sign, digits with an optional
\* fraction; exponent, inf and nan forms and fractions off the 0.5 grid are
\* OutOfModel
ParseFloat(cs) ==
    LET s == Strip(cs)
        neg == s # <<>> /\ Head(s) = "-"
        body == IF s # <<>> /\ Head(s) \in {"-", "+"} THEN Tail(s) ELSE s
        dot == DotAt(body)
        ipart == IF dot = 0 THEN body ELSE SubSeq(body, 1, dot - 1)
        fpart == IF dot = 0 THEN <<>> ELSE SubSeq(body, dot + 1, Len(body))
        i == IF ipart = <<>> THEN [ok |-> fpart # <<>>, n |-> 0] ELSE ParseDigits(ipart, 0, FALSE)
        fdigits == fpart = <<>> \/ ParseDigits(fpart, 0, FALSE).ok
        f == FracHalves(fpart)
        special == Lower(body) \in {<<"i", "n", "f">>, <<"n", "a", "n">>,
                                    <<"i", "n", "f", "i", "n", "i", "t", "y">>}
        exponent == \E k \in 1..Len(body) : body[k] \in {"e", "E"}
    IN IF i.ok /\ fdigits
       THEN IF f.ok
            THEN Returns(FloatV(IF neg THEN -(2 * i.n + f.h) ELSE 2 * i.n + f.h))
            ELSE Raises("OutOfModel")
       ELSE IF special \/ (exponent /\ body # <<>> /\ (IsDigit(body[1]) \/ body[1] = "."))
            THEN Raises("OutOfModel")
            ELSE Raises("ValueError")

\* float(x)
ToFloat(x) ==
    CASE x.t \in {"bool", "int"} -> Returns(FloatV(Halves(x)))
      [] x.t = "float" -> Returns(x)
      [] x.t = "str" -> ParseFloat(x.v)
      [] OTHER -> Raises("TypeError")

\* bool(x): truthiness
ToBool(x) ==
    CASE x.t = "none" -> Returns(BoolV(FALSE))
      [] x.t = "bool" -> Returns(x)
      [] x.t \in {"int", "float"} -> Returns(BoolV(x.v # 0))
      [] OTHER -> Returns(BoolV(x.v # <<>>))

IsHashable(x) == x.t \notin {"list", "dict"}

\* what iterating x yields (a dict yields its keys), for x a str, list or dict
IterItems(x) ==
    CASE x.t = "str" -> [i \in 1..Len(x.v) |-> StrV(<<x.v[i]>>)]
      [] x.t = "list" -> x.v
      [] x.t = "dict" -> [i \in 1..Len(x.v) |-> x.v[i].k]
IsIterable(x) == x.t \in {"str", "list", "dict"}

\* dict(pairs): every element an iterable of exactly two items, key hashable
RECURSIVE DictFromPairs(_, _, _)
DictFromPairs(items, i, acc) ==
    IF i > Len(items) THEN Returns(acc)
    ELSE IF ~IsIterable(items[i]) THEN Raises("TypeError")
    ELSE LET pair == IterItems(items[i])
         IN IF Len(pair) # 2 THEN Raises("ValueError")
            ELSE IF ~IsHashable(pair[1]) THEN Raises("TypeError")
            ELSE DictFromPairs(items, i + 1, SetItem(acc, pair[1], pair[2]))

\* dict(x): a shallow copy of a mapping, or built from a sequence of pairs
ToDict(x) ==
    CASE x.t = "dict" -> Returns(x)
      [] x.t \in {"list", "str"} -> DictFromPairs(IterItems(x), 1, DictV(<<>>))
      [] OTHER -> Raises("TypeError")

\* list(x): a shallow copy of the items of an iterable
ToList(x) == IF IsIterable(x) THEN Returns(ListV(IterItems(x))) ELSE Raises("TypeError")

\* to(value), the generic cast of _coerceValue
Cast(to, x) ==
    CASE to = "str" -> ToStr(x)
      [] to = "int" -> ToInt(x)
      [] to = "float" -> ToFloat(x)
      [] to = "bool" -> ToBool(x)
      [] to = "dict" -> ToDict(x)
      [] to = "list" -> ToList(x)

\* isinstance(value, to); bool is a subclass of int
IsInstance(x, to) == IF to = "int" THEN x.t \in {"int", "bool"} ELSE x.t = to

-----------------------------------------------------------------------------
(* json.loads: null, true, false, numbers, "text" without escapes, arrays   *)
(* and objects.  A parse step returns [st, val, rest] with st "ok", "bad"   *)
(* (JSONDecodeError) or "oom" (escapes, exponents, NaN/Infinity, fractions  *)
(* off the 0.5 grid: OutOfModel).                                           *)

StartsWith(cs, lit) == Len(cs) >= Len(lit) /\ SubSeq(cs, 1, Len(lit)) = lit
Drop(cs, n) == SubSeq(cs, n + 1, Len(cs))
JsonStep(st, val, rest) == [st |-> st, val |-> val, rest |-> rest]
JsonBad == JsonStep("bad", NoneV, <<>>)
JsonOom == JsonStep("oom", NoneV, <<>>)

\* the number of leading digits of cs
RECURSIVE DigitRun(_)
DigitRun(cs) == IF cs # <<>> /\ IsDigit(Head(cs)) THEN 1 + DigitRun(Tail(cs)) ELSE 0

JsonNumber(cs) ==
    LET neg == cs # <<>> /\ Head(cs) = "-"
        body == IF neg THEN Tail(cs) ELSE cs
        n == DigitRun(body)
        idigits == SubSeq(body, 1, n)
        after == Drop(body, n)
        hasFrac == after # <<>> /\ Head(after) = "."
        m == IF hasFrac THEN DigitRun(Tail(after)) ELSE 0
        fdigits == IF hasFrac THEN SubSeq(after, 2, m + 1) ELSE <<>>
        rest == IF hasFrac THEN Drop(after, m + 1) ELSE after
        ival == ParseDigits(idigits, 0, FALSE).n
        f == FracHalves(fdigits)
    IN IF n = 0 \/ (n > 1 /\ Head(idigits) = "0") \/ (hasFrac /\ m = 0) THEN JsonBad
       ELSE IF rest # <<>> /\ Head(rest) \in {"e", "E"} THEN JsonOom
       ELSE IF ~hasFrac THEN JsonStep("ok", IntV(IF neg THEN -ival ELSE ival), rest)
       ELSE IF ~f.ok THEN JsonOom
       ELSE JsonStep("ok", FloatV(IF neg THEN -(2 * ival + f.h) ELSE 2 * ival + f.h), rest)

\* the text after an opening quote, up to the closing quote
JsonText(cs) ==
    IF ~(\E i \in 1..Len(cs) : cs[i] = "\"") THEN JsonBad
    ELSE LET close == CHOOSE i \in 1..Len(cs) :
                            cs[i] = "\"" /\ \A j \in 1..(i - 1) : cs[j] # "\""
         IN IF \E j \in 1..(close - 1) : cs[j] = "\\" THEN JsonOom
            ELSE JsonStep("ok", StrV(SubSeq(cs, 1, close - 1)), Drop(cs, close))

RECURSIVE JsonValue(_)
RECURSIVE JsonElements(_, _)
RECURSIVE JsonMembers(_, _)

\* after "[" or ",": an element, then "," or "]"
JsonElements(cs, acc) ==
    LET e == JsonValue(LStrip(cs))
        rest == LStrip(e.rest)
    IN IF e.st # "ok" THEN e
       ELSE IF rest # <<>> /\ Head(rest) = "," THEN JsonElements(Tail(rest), Append(acc, e.val))
       ELSE IF rest # <<>> /\ Head(rest) = "]" THEN JsonStep("ok", ListV(Append(acc, e.val)), Tail(rest))
       ELSE JsonBad

\* after "{" or ",": "key" : value, then "," or "}" (a repeated key keeps the last value)
JsonMembers(cs, acc) ==
    LET s == LStrip(cs)
        key == IF s # <<>> /\ Head(s) = "\"" THEN JsonText(Tail(s)) ELSE JsonBad
        colon == LStrip(key.rest)
        e == IF colon # <<>> /\ Head(colon) = ":" THEN JsonValue(LStrip(Tail(colon))) ELSE JsonBad
        rest == LStrip(e.rest)
    IN IF key.st # "ok" THEN key
       ELSE IF e.st # "ok" THEN e
       ELSE IF rest # <<>> /\ Head(rest) = ","
            THEN JsonMembers(Tail(rest), SetItem(acc, key.val, e.val))
       ELSE IF rest # <<>> /\ Head(rest) = "}"
            THEN JsonStep("ok", SetItem(acc, key.val, e.val), Tail(rest))
       ELSE JsonBad

JsonValue(cs) ==
    CASE StartsWith(cs, <<"n", "u", "l", "l">>) -> JsonStep("ok", NoneV, Drop(cs, 4))
      [] StartsWith(cs, <<"t", "r", "u", "e">>) -> JsonStep("ok", BoolV(TRUE), Drop(cs, 4))
      [] StartsWith(cs, <<"f", "a", "l", "s", "e">>) -> JsonStep("ok", BoolV(FALSE), Drop(cs, 5))
      [] StartsWith(cs, <<"N", "a", "N">>) -> JsonOom
      [] StartsWith(cs, <<"I", "n", "f", "i", "n", "i", "t", "y">>) -> JsonOom
      [] StartsWith(cs, <<"-", "I", "n", "f", "i", "n", "i", "t", "y">>) -> JsonOom
      [] StartsWith(cs, <<"\"">>) -> JsonText(Tail(cs))
      [] StartsWith(cs, <<"[">>) ->
            IF StartsWith(LStrip(Tail(cs)), <<"]">>)
            THEN JsonStep("ok", ListV(<<>>), Tail(LStrip(Tail(cs))))
            ELSE JsonElements(Tail(cs), <<>>)
      [] StartsWith(cs, <<"{">>) ->
            IF StartsWith(LStrip(Tail(cs)), <<"}">>)
            THEN JsonStep("ok", DictV(<<>>), Tail(LStrip(Tail(cs))))
            ELSE JsonMembers(Tail(cs), DictV(<<>>))
      [] OTHER -> JsonNumber(cs)

\* json.loads(text)
JsonLoads(cs) ==
    With(JsonValue(LStrip(cs)), LAMBDA r :
        IF r.st = "oom" THEN Raises("OutOfModel")
        ELSE IF r.st = "ok" /\ LStrip(r.rest) = <<>> THEN Returns(r.val)
        ELSE Raises("JSONDecodeError"))

-----------------------------------------------------------------------------
(* result.py: ValidationError and ValidationResult *)

\* a piece of fixed text of an error message; the formatted values of a
\* message are kept as the values themselves
Text(s) == [t |-> "text", v |-> s]

\* ValidationError(message, path, validation, cause)
ValidationError(message, path, validation) ==
    [message |-> message, path |-> path, validation |-> validation, cause |-> <<>>]

\* a variant of the constructor that leaves the cause out
ValidationErrorNoCause(message, path, validation, cause) ==
    [message |-> message, path |-> path, validation |-> validation, cause |-> <<>>]

\* ValidationError(message, path, validation, cause), cause an Optional list:
\* self._cause = cause or []
ValidationErrorCause(message, path, validation, cause) ==
    [message |-> message, path |-> path, validation |-> validation,
     cause |-> IF cause = <<>> THEN <<>> ELSE cause[1]]

\* a variant of inherit that puts the new path behind the error's own path
InheritAppends(error, path) ==
    [message |-> error.message, path |-> error.path \o path,
     validation |-> error.validation, cause |-> error.cause]

\* a variant of inherit that builds the new error without the cause
InheritDropsCause(error, path) ==
    [message |-> error.message, path |-> path \o error.path,
     validation |-> error.validation, cause |-> <<>>]

\* ValidationError.inherit(error, path)
Inherit(error, path) ==
    [message |-> error.message, path |-> path \o error.path,
     validation |-> error.validation, cause |-> error.cause]

\* ValidationResult.ok(data, nullable)
Ok(data, nullable) == [state |-> "Valid", data |-> data, error |-> <<>>, nullable |-> nullable]
\* ValidationResult.err(error)
Err(error) == [state |-> "Invalid", data |-> NoneV, error |-> <<error>>, nullable |-> FALSE]

\* ValidationResult.valid / __bool__
Valid(r) == r.state = "Valid"

\* ValidationResult._assertReturnData
AssertReturnData(r) ==
    IF ~r.nullable /\ IsNone(r.data) THEN Raises("AssertionError") ELSE Returns(r.data)

\* ValidationResult.unwrap
Unwrap(r) == IF Valid(r) THEN AssertReturnData(r) ELSE Raises("ValueError")

\* ValidationResult.unwrapOr(default)
UnwrapOr(r, default) == IF Valid(r) THEN AssertReturnData(r) ELSE Returns(default)

\* ValidationResult.expect(msg), msg None when not supplied: what comes back
\* or, when it raises, the exception and what it carries
Expect(r, msg) ==
    IF Valid(r) THEN AssertReturnData(r)
    ELSE IF IsNone(msg)
    THEN IF r.error = <<>> THEN Raises("AssertionError")
         ELSE [exc |-> "ValidationError", val |-> r.error[1]]
    ELSE [exc |-> "ValueError", val |-> msg]

\* a variant of invalidate that sets the state and leaves the error aside
InvalidateDropsError(r, error) == [r EXCEPT !.state = "Invalid"]

\* ValidationResult.invalidate(error), error an Optional
Invalidate(r, error) == [r EXCEPT !.state = "Invalid", !.error = error]

\* ValidationResult.update(value): [exc, res]
Update(r, value) ==
    IF ~Valid(value) THEN [exc |-> "none", res |-> Invalidate(r, value.error)]
    ELSE LET u == Unwrap(value)
         IN IF u.exc # "none" THEN [exc |-> u.exc, res |-> r]
            ELSE [exc |-> "none", res |-> [r EXCEPT !.data = u.val]]

-----------------------------------------------------------------------------
(* base.py: the schema node's configuration and the modifier traits *)

\* a schema node as its constructor leaves it (ISchemaType, INullable,
\* IWithEnum, IWithLength, String, Object and Array __init__)
NewSchema(kind) ==
    [kind |-> kind,
     nullable |-> FALSE, optional |-> FALSE, coerce |-> FALSE, default |-> NoneV,
     enum |-> <<>>,
     min |-> <<>>, max |-> <<>>, minInclusive |-> FALSE, maxInclusive |-> FALSE,
     regex |-> <<>>, regexType |-> <<>>, regexMessage |-> <<>>,
     body |-> <<>>, allowAdditionalProperties |-> FALSE,
     item |-> <<>>,
     alts |-> <<>>]

\* the builder methods
nullable(s) == [s EXCEPT !.nullable = TRUE]
coerce(s) == [s EXCEPT !.coerce = TRUE]
optional(s) == [s EXCEPT !.optional = TRUE, !.nullable = TRUE]
default(s, value) == [s EXCEPT !.default = value, !.nullable = TRUE]
enum(s, values) == [s EXCEPT !.enum = <<values>>]
\* a variant of min that also drops the upper bound
minResetsMax(s, min_, inclusive) ==
    [s EXCEPT !.min = <<min_>>, !.minInclusive = inclusive, !.max = <<>>]
min(s, min_, inclusive) == [s EXCEPT !.min = <<min_>>, !.minInclusive = inclusive]
max(s, max_, inclusive) == [s EXCEPT !.max = <<max_>>, !.maxInclusive = inclusive]

\* a step of validate: the exception it raises, or the result it returns
Step(res) == [exc |-> "none", res |-> res]
StepRaises(exc) == [exc |-> exc, res |-> Err(ValidationError(<<>>, <<>>, ""))]

\* a variant of _coerceValue without the str -> bool table: a text goes to
\* bool(value) like every other value
CoerceValueTruthy(s, value, to) ==
    IF s.nullable /\ IsNone(value) THEN Step(Ok(s.default, TRUE))
    ELSE IF ~s.coerce
    THEN IF IsInstance(value, to) THEN Step(Ok(value, FALSE))
         ELSE Step(Err(ValidationError(<<value, Text(" is not of type "), Text(to)>>,
                                       <<>>, "coerce")))
    ELSE With(IF to \in {"dict", "list"} /\ value.t = "str"
              THEN JsonLoads(value.v) ELSE Cast(to, value), LAMBDA c :
            IF c.exc # "none" THEN StepRaises(c.exc) ELSE Step(Ok(c.val, FALSE)))

\* ISchemaType._coerceValue(value, to)
CoerceValue(s, value, to) ==
    IF s.nullable /\ IsNone(value) THEN Step(Ok(s.default, TRUE))
    ELSE IF ~s.coerce
    THEN IF IsInstance(value, to) THEN Step(Ok(value, FALSE))
         ELSE Step(Err(ValidationError(<<value, Text(" is not of type "), Text(to)>>,
                                       <<>>, "coerce")))
    ELSE IF to = "bool" /\ value.t = "str"
    THEN IF Lower(value.v) \in {<<"t", "r", "u", "e">>, <<"1">>, <<"y", "e", "s">>, <<"y">>}
         THEN Step(Ok(BoolV(TRUE), FALSE))
         ELSE IF Lower(value.v) \in {<<"f", "a", "l", "s", "e">>, <<"0">>, <<"n", "o">>, <<"n">>}
         THEN Step(Ok(BoolV(FALSE), FALSE))
         ELSE Step(Err(ValidationError(<<value, Text(" is not a boolean")>>, <<>>, "coerce")))
    ELSE With(IF to \in {"dict", "list"} /\ value.t = "str"
              THEN JsonLoads(value.v) ELSE Cast(to, value), LAMBDA c :
            IF c.exc # "none" THEN StepRaises(c.exc) ELSE Step(Ok(c.val, FALSE)))

\* IWithEnum.validate(value)
EnumValidate(s, value) ==
    IF s.enum = <<>> \/ s.enum[1] = <<>> THEN Ok(value, FALSE)
    ELSE IF s.nullable /\ IsNone(value) THEN Ok(value, TRUE)
    ELSE IF ~InList(value, s.enum[1])
    THEN Err(ValidationError(<<value, Text(" is not in "), ListV(s.enum[1])>>, <<>>, "enum"))
    ELSE Ok(value, FALSE)

\* the length() of each concrete type: len(value) for String and Array,
\* the value itself for Integer and Float
Length(s, value) ==
    IF s.kind \in {"String", "Array"}
    THEN IF value.t \in {"str", "list", "dict"} THEN Returns(IntV(Len(value.v)))
         ELSE Raises("TypeError")
    ELSE Returns(value)

\* a < b and a <= b of Python, b an int: [exc, val]
PyLess(a, b) == IF IsNumber(a) THEN Returns(BoolV(Halves(a) < 2 * b)) ELSE Raises("TypeError")
PyLessEq(a, b) == IF IsNumber(a) THEN Returns(BoolV(Halves(a) <= 2 * b)) ELSE Raises("TypeError")
PyGreater(a, b) == IF IsNumber(a) THEN Returns(BoolV(Halves(a) > 2 * b)) ELSE Raises("TypeError")
PyGreaterEq(a, b) == IF IsNumber(a) THEN Returns(BoolV(Halves(a) >= 2 * b)) ELSE Raises("TypeError")

\* a variant of the min half with the two comparisons exchanged
MinValidateSwapped(s, value) ==
    IF s.min = <<>> THEN Step(Ok(value, FALSE))
    ELSE LET length == Length(s, value)
             below == IF s.minInclusive THEN PyLessEq(length.val, s.min[1])
                      ELSE PyLess(length.val, s.min[1])
         IN IF length.exc # "none" THEN StepRaises(length.exc)
            ELSE IF below.exc # "none" THEN StepRaises(below.exc)
            ELSE IF below.val.v
            THEN Step(Err(ValidationError(<<Text("expected "), length.val>>, <<>>, "min")))
            ELSE Step(Ok(value, FALSE))

\* the min half of IWithLength.validate
MinValidate(s, value) ==
    IF s.min = <<>> THEN Step(Ok(value, FALSE))
    ELSE LET length == Length(s, value)
             below == IF s.minInclusive THEN PyLess(length.val, s.min[1])
                      ELSE PyLessEq(length.val, s.min[1])
         IN IF length.exc # "none" THEN StepRaises(length.exc)
            ELSE IF below.exc # "none" THEN StepRaises(below.exc)
            ELSE IF below.val.v
            THEN Step(Err(ValidationError(
                    <<Text("expected "), length.val,
                      Text(IF s.minInclusive THEN " to be greater than or equal to "
                           ELSE " to be greater than "),
                      IntV(s.min[1])>>, <<>>, "min")))
            ELSE Step(Ok(value, FALSE))

\* the max half of IWithLength.validate
MaxValidate(s, value) ==
    IF s.max = <<>> THEN Step(Ok(value, FALSE))
    ELSE LET length == Length(s, value)
             above == IF s.maxInclusive THEN PyGreater(length.val, s.max[1])
                      ELSE PyGreaterEq(length.val, s.max[1])
         IN IF length.exc # "none" THEN StepRaises(length.exc)
            ELSE IF above.exc # "none" THEN StepRaises(above.exc)
            ELSE IF above.val.v
            THEN Step(Err(ValidationError(
                    <<Text("expected "), length.val,
                      Text(IF s.maxInclusive THEN " to be less than or equal to "
                           ELSE " to be less than "),
                      IntV(s.max[1])>>, <<>>, "max")))
            ELSE Step(Ok(value, FALSE))

\* IWithLength.validate(value)
LengthValidate(s, value) ==
    IF s.nullable /\ IsNone(value) THEN Step(Ok(value, TRUE))
    ELSE With(MinValidate(s, value), LAMBDA lo :
            IF lo.exc # "none" \/ ~Valid(lo.res) THEN lo ELSE MaxValidate(s, value))

-----------------------------------------------------------------------------
(* schema.py's own IWithEnum (the module carries its own copy of the        *)
(* traits beside base.py's).                                                *)

\* IWithEnum.enum(*values) of schema.py: self._enum = list(*values). [exc, val]
LegacyEnum(values) ==
    IF Len(values) = 0 THEN Returns(<<>>)
    ELSE IF Len(values) > 1 THEN Raises("TypeError")
    ELSE IF ~IsIterable(values[1]) THEN Raises("TypeError")
    ELSE Returns(IterItems(values[1]))

\* the enum trait's state after enum(*values): _enum is kept when list(..) raises
LegacyEnumCall(l, values) ==
    LET e == LegacyEnum(values)
    IN IF e.exc # "none" THEN [l EXCEPT !.exc = e.exc]
       ELSE [l EXCEPT !.enum = <<e.val>>, !.exc = "none"]

\* IWithEnum.validate(value) of schema.py, enum_ the Optional _enum
LegacyEnumValidate(enum_, value) ==
    IF enum_ # <<>> /\ ~InList(value, enum_[1])
    THEN Err(ValidationError(<<value, Text(" is not in "), ListV(enum_[1])>>, <<>>, "enum"))
    ELSE Ok(value, FALSE)

\* ISchemaType.optional() of schema.py: self._optional = True
LegacyOptional(l) == [l EXCEPT !.optional = TRUE]

\* whether schema.py's node is nullable: its ISchemaType.__init__ sets _min,
\* _max, _optional and _coerce, it has no nullable setting and no builder
\* call gives it one
LegacyNullable(l) == FALSE

\* the node as schema.py's ISchemaType.__init__ and IWithEnum.__init__ leave
\* it; check holds the result of the last validate or update
NewLegacy == [enum |-> <<>>, exc |-> "none", check |-> <<>>, optional |-> FALSE]

-----------------------------------------------------------------------------
(* schema.py: the concrete schema types.                                    *)
(*                                                                          *)
(* validate returns an outcome [exc, res, inp, alias, sch]:                 *)
(*   exc    "none", or the exception the call raises instead of returning   *)
(*   res    the ValidationResult returned (meaningful when exc = "none")    *)
(*   inp    the caller's value object as the call leaves it                 *)
(*   alias  res's data is a mutable container that is the caller's value    *)
(*          object itself                                                   *)
(*   sch    the schema node as the call leaves it                           *)

Out(exc, res, inp, alias, sch) == [exc |-> exc, res |-> res, inp |-> inp, alias |-> alias, sch |-> sch]
IsContainer(x) == x.t \in {"list", "dict"}

\* result.update(IWithEnum.validate(self, arg)), arg the evaluated argument
EnumStep(s, r, arg) ==
    IF arg.exc # "none" THEN StepRaises(arg.exc) ELSE Update(r, EnumValidate(s, arg.val))

\* result.update(IWithLength.validate(self, arg))
LengthStep(s, r, arg) ==
    IF arg.exc # "none" THEN StepRaises(arg.exc)
    ELSE With(LengthValidate(s, arg.val), LAMBDA l :
            IF l.exc # "none" THEN l ELSE Update(r, l.res))

Stops(step) == step.exc # "none" \/ ~Valid(step.res)

\* re.match of the patterns the builder sets; "$" also matches before a
\* final newline
Match(pattern, cs) ==
    LET body == IF cs # <<>> /\ cs[Len(cs)] = "\n" THEN SubSeq(cs, 1, Len(cs) - 1) ELSE cs
    IN CASE pattern = "^[a-z]+$" -> body # <<>> /\ \A i \in 1..Len(body) : IsLower(body[i])

\* String.regex(regex)
regex(s, pattern) ==
    [s EXCEPT !.regex = <<[pattern |-> pattern, compiled |-> FALSE]>>,
              !.regexType = <<"regex">>,
              !.regexMessage = <<<<Text("string didn't match "), Text(pattern)>>>>]

\* the regex rule with the compiled pattern stored in place of another
\* setting: the node loses its regex kind
RegexStepOverwrites(s, r) ==
    IF s.regex = <<>> THEN [exc |-> "none", res |-> r, sch |-> s]
    ELSE LET sch == [s EXCEPT !.regex = <<[pattern |-> s.regex[1].pattern, compiled |-> TRUE]>>,
                              !.regexType = <<>>]
             u == Unwrap(r)
         IN IF u.exc # "none" THEN [exc |-> u.exc, res |-> r, sch |-> sch]
            ELSE IF u.val.t # "str" THEN [exc |-> "TypeError", res |-> r, sch |-> sch]
            ELSE IF Match(s.regex[1].pattern, u.val.v) THEN [exc |-> "none", res |-> r, sch |-> sch]
            ELSE [exc |-> "none", sch |-> sch,
                  res |-> Invalidate(r, <<ValidationError(s.regexMessage[1], <<>>, s.regexType[1])>>)]

\* the regex rule of String.validate: [exc, res, sch]
RegexStep(s, r) ==
    IF s.regex = <<>> THEN [exc |-> "none", res |-> r, sch |-> s]
    ELSE LET sch == [s EXCEPT !.regex = <<[pattern |-> s.regex[1].pattern, compiled |-> TRUE]>>]
             u == Unwrap(r)
         IN IF u.exc # "none" THEN [exc |-> u.exc, res |-> r, sch |-> sch]
            ELSE IF u.val.t # "str" THEN [exc |-> "TypeError", res |-> r, sch |-> sch]
            ELSE IF Match(s.regex[1].pattern, u.val.v) THEN [exc |-> "none", res |-> r, sch |-> sch]
            ELSE IF s.regexType = <<>> \/ s.regexMessage = <<>>
            THEN [exc |-> "AssertionError", res |-> r, sch |-> sch]
            ELSE [exc |-> "none", sch |-> sch,
                  res |-> Invalidate(r, <<ValidationError(s.regexMessage[1], <<>>, s.regexType[1])>>)]

\* String.validate
StringValidate(s, value) ==
    With(CoerceValue(s, value, "str"), LAMBDA c :
      IF Stops(c) THEN Out(c.exc, c.res, value, FALSE, s)
      ELSE With(EnumStep(s, c.res, Unwrap(c.res)), LAMBDA e :
        IF Stops(e) THEN Out(e.exc, e.res, value, FALSE, s)
        ELSE With(LengthStep(s, e.res, Unwrap(e.res)), LAMBDA l :
          IF Stops(l) THEN Out(l.exc, l.res, value, FALSE, s)
          ELSE With(RegexStep(s, l.res), LAMBDA x :
            Out(x.exc, x.res, value, FALSE, x.sch)))))

\* Integer.validate
IntegerValidate(s, value) ==
    With(CoerceValue(s, value, "int"), LAMBDA c :
      IF Stops(c) THEN Out(c.exc, c.res, value, FALSE, s)
      ELSE With(EnumStep(s, c.res, Unwrap(c.res)), LAMBDA e :
        IF Stops(e) THEN Out(e.exc, e.res, value, FALSE, s)
        ELSE With(LengthStep(s, e.res, Unwrap(e.res)), LAMBDA l :
          Out(l.exc, l.res, value, FALSE, s))))

\* Float.validate: the enum and bound checks are handed the raw value
FloatValidate(s, value) ==
    With(CoerceValue(s, value, "float"), LAMBDA c :
      IF Stops(c) THEN Out(c.exc, c.res, value, FALSE, s)
      ELSE With(EnumStep(s, c.res, Returns(value)), LAMBDA e :
        IF Stops(e) THEN Out(e.exc, e.res, value, FALSE, s)
        ELSE With(LengthStep(s, e.res, Returns(value)), LAMBDA l :
          Out(l.exc, l.res, value, Valid(l.res) /\ IsContainer(value), s))))

\* Boolean.validate: the enum check is handed the raw value
BooleanValidate(s, value) ==
    With(CoerceValue(s, value, "bool"), LAMBDA c :
      IF Stops(c) THEN Out(c.exc, c.res, value, FALSE, s)
      ELSE With(EnumStep(s, c.res, Returns(value)), LAMBDA e :
        Out(e.exc, e.res, value, Valid(e.res) /\ IsContainer(value), s)))

\* cs has sub as a substring
IsSubstring(sub, cs) ==
    \E i \in 0..(Len(cs) - Len(sub)) : SubSeq(cs, i + 1, i + Len(sub)) = sub

\* key in x: [exc, val]
Contains(x, key) ==
    CASE x.t = "dict" ->
            IF IsHashable(key) THEN Returns(BoolV(HasKey(x, key))) ELSE Raises("TypeError")
      [] x.t = "list" -> Returns(BoolV(InList(key, x.v)))
      [] x.t = "str" ->
            IF key.t = "str" THEN Returns(BoolV(IsSubstring(key.v, x.v))) ELSE Raises("TypeError")
      [] OTHER -> Raises("TypeError")

\* x[key]: [exc, val]
Subscript(x, key) ==
    CASE x.t = "dict" ->
            IF ~IsHashable(key) THEN Raises("TypeError")
            ELSE IF HasKey(x, key) THEN Returns(GetItem(x, key)) ELSE Raises("KeyError")
      [] x.t \in {"list", "str"} ->
            IF key.t \notin {"int", "bool"} THEN Raises("TypeError")
            ELSE LET n == Halves(key) \div 2
                     i == IF n < 0 THEN Len(x.v) + n + 1 ELSE n + 1
                 IN IF i \in 1..Len(x.v)
                    THEN Returns(IF x.t = "str" THEN StrV(<<x.v[i]>>) ELSE x.v[i])
                    ELSE Raises("IndexError")
      [] OTHER -> Raises("TypeError")

\* a declared field value is a schema node; anything else (a literal of the
\* caller) has neither _optional nor validate
IsSchemaNode(x) == "kind" \in DOMAIN x

RECURSIVE Validate(_, _)
RECURSIVE ObjectFields(_, _)
RECURSIVE AdditionalKeys(_, _, _)
RECURSIVE ArrayItems(_, _, _)
RECURSIVE OneOfAlternatives(_, _, _, _)

\* The state of Object.validate's loop over body.items():
\*   value   the caller's value object
\*   result  the result (its data is the value object itself when alias,
\*           else a separate object that shares the value's children)
\*   body    the declared fields, with their schema nodes as validate leaves them
\* ObjectFields returns [exc, returned, st]: the loop raised, returned early
\* with st.result, or ran to its end.
ObjectFields(st, i) ==
    IF i > Len(st.body) THEN [exc |-> "none", returned |-> FALSE, st |-> st]
    ELSE LET key == st.body[i].k
             schemaI == st.body[i].schema
             data == Unwrap(st.result)
             has == Contains(data.val, key)
             item == Subscript(st.value, key)
         IN IF data.exc # "none" THEN [exc |-> data.exc, returned |-> FALSE, st |-> st]
            ELSE IF has.exc # "none" THEN [exc |-> has.exc, returned |-> FALSE, st |-> st]
            ELSE IF ~IsSchemaNode(schemaI)
            THEN [exc |-> "AttributeError", returned |-> FALSE, st |-> st]
            ELSE IF ~has.val.v
            THEN IF ~schemaI.optional
                 THEN [exc |-> "none", returned |-> TRUE,
                       st |-> [st EXCEPT !.result = Invalidate(st.result,
                                <<ValidationError(<<Text("expected "), key, Text(" to be present")>>,
                                                  <<>>, "required")>>)]]
                 ELSE ObjectFields(st, i + 1)
            ELSE IF item.exc # "none" THEN [exc |-> item.exc, returned |-> FALSE, st |-> st]
            ELSE With(Validate(schemaI, item.val), LAMBDA keyRes :
              LET \* the field's value object as the nested call left it, seen
                  \* through the caller's value and through the result's data
                  st1 == [st EXCEPT
                            !.value = SetItem(st.value, key, keyRes.inp),
                            !.result.data = SetItem(st.result.data, key, keyRes.inp),
                            !.body[i].schema = keyRes.sch]
                  unwrapped == Unwrap(keyRes.res)
                  \* value[key] = keyRes.unwrap()
                  st2 == [st1 EXCEPT
                            !.value = SetItem(st1.value, key, unwrapped.val),
                            !.result.data = IF st.alias
                                            THEN SetItem(st1.value, key, unwrapped.val)
                                            ELSE st1.result.data]
              IN IF keyRes.exc # "none"
                 THEN [exc |-> keyRes.exc, returned |-> FALSE, st |-> st1]
                 ELSE IF ~Valid(keyRes.res)
                 THEN IF keyRes.res.error = <<>>
                      THEN [exc |-> "AssertionError", returned |-> FALSE, st |-> st1]
                      ELSE [exc |-> "none", returned |-> TRUE,
                            st |-> [st1 EXCEPT !.result =
                                Invalidate(st1.result, <<Inherit(keyRes.res.error[1], <<key>>)>>)]]
                 ELSE IF unwrapped.exc # "none"
                 THEN [exc |-> unwrapped.exc, returned |-> FALSE, st |-> st1]
                 ELSE ObjectFields(st2, i + 1))

\* `for key in result.unwrap(): if key not in body`, from the j-th key on:
\* [exc, res]
AdditionalKeys(r, keys, body) ==
    IF keys = <<>> THEN Step(r)
    ELSE IF ~IsHashable(Head(keys)) THEN StepRaises("TypeError")
    ELSE IF ~(\E i \in 1..Len(body) : PyEq(body[i].k, Head(keys)))
    THEN Step(Invalidate(r, <<ValidationError(<<Text("unexpected property "), Head(keys)>>,
                                              <<>>, "additionalProperties")>>))
    ELSE AdditionalKeys(r, Tail(keys), body)

\* a variant of the additional-properties rule that ignores the flag
AdditionalStepAlways(s, r, body) ==
    LET data == Unwrap(r)
    IN IF data.exc # "none" THEN StepRaises(data.exc)
       ELSE IF ~IsIterable(data.val) THEN StepRaises("TypeError")
       ELSE AdditionalKeys(r, IterItems(data.val), body)

\* the additional-properties rule of Object.validate
AdditionalStep(s, r, body) ==
    IF s.allowAdditionalProperties THEN Step(r)
    ELSE LET data == Unwrap(r)
         IN IF data.exc # "none" THEN StepRaises(data.exc)
            ELSE IF ~IsIterable(data.val) THEN StepRaises("TypeError")
            ELSE AdditionalKeys(r, IterItems(data.val), body)

\* a variant of Object.validate that walks the declared fields last to first
ObjectValidateBackwards(s, value) ==
    LET alias == ~(s.nullable /\ IsNone(value)) /\ ~s.coerce
        declared == IF s.body = <<>> THEN <<>> ELSE s.body[1]
        body == [i \in 1..Len(declared) |-> declared[Len(declared) + 1 - i]]
    IN With(CoerceValue(s, value, "dict"), LAMBDA c :
         IF Stops(c) THEN Out(c.exc, c.res, value, FALSE, s)
         ELSE With(ObjectFields([value |-> value, result |-> c.res,
                                 body |-> body, alias |-> alias], 1), LAMBDA loop :
           LET sch == IF s.body = <<>> THEN s
                      ELSE [s EXCEPT !.body = <<[i \in 1..Len(declared) |->
                                                  loop.st.body[Len(declared) + 1 - i]]>>]
           IN IF loop.exc # "none" \/ loop.returned
              THEN Out(loop.exc, loop.st.result, loop.st.value, alias, sch)
              ELSE With(AdditionalStep(s, loop.st.result, body), LAMBDA a :
                     Out(a.exc, a.res, loop.st.value, alias, sch))))

\* Object.validate
ObjectValidate(s, value) ==
    LET alias == ~(s.nullable /\ IsNone(value)) /\ ~s.coerce
        body == IF s.body = <<>> THEN <<>> ELSE s.body[1]
    IN With(CoerceValue(s, value, "dict"), LAMBDA c :
         IF Stops(c) THEN Out(c.exc, c.res, value, FALSE, s)
         ELSE With(ObjectFields([value |-> value, result |-> c.res,
                                 body |-> body, alias |-> alias], 1), LAMBDA loop :
           LET sch == IF s.body = <<>> THEN s ELSE [s EXCEPT !.body = <<loop.st.body>>]
           IN IF loop.exc # "none" \/ loop.returned
              THEN Out(loop.exc, loop.st.result, loop.st.value, alias, sch)
              ELSE With(AdditionalStep(s, loop.st.result, body), LAMBDA a :
                     Out(a.exc, a.res, loop.st.value, alias, sch))))

\* a variant of the loop that goes on after an invalid element and reports
\* the last invalid one
ArrayItemsKeepsGoing(st, i, shared) ==
    IF i > Len(st.items) THEN [exc |-> "none", returned |-> FALSE, st |-> st]
    ELSE With(Validate(st.item, st.items[i]), LAMBDA res :
      LET st1 == [st EXCEPT
                    !.value = IF shared THEN ListV([st.value.v EXCEPT ![i] = res.inp])
                              ELSE st.value,
                    !.items[i] = res.inp,
                    !.item = res.sch]
          unwrapped == Unwrap(res.res)
          rest == ArrayItems(st1, i + 1, shared)
      IN IF res.exc # "none" THEN [exc |-> res.exc, returned |-> FALSE, st |-> st1]
         ELSE IF ~Valid(res.res)
         THEN IF rest.exc # "none" \/ rest.returned THEN rest
              ELSE [exc |-> "none", returned |-> TRUE,
                    st |-> [rest.st EXCEPT !.result = Invalidate(st1.result,
                             <<Inherit(res.res.error[1], <<StrV(<<"[", "]">>)>>)>>)]]
         ELSE IF unwrapped.exc # "none"
         THEN [exc |-> unwrapped.exc, returned |-> FALSE, st |-> st1]
         ELSE ArrayItems([st1 EXCEPT !.values = Append(st1.values, unwrapped.val)],
                         i + 1, shared))

\* The loop of Array.validate over result.unwrap(), from the i-th item on.
\* st: value (the caller's value object), items (what is iterated), values
\* (the list being built), item (the child schema node), result.
\* shared: the iterated items are the caller's list's own elements.
ArrayItems(st, i, shared) ==
    IF i > Len(st.items) THEN [exc |-> "none", returned |-> FALSE, st |-> st]
    ELSE With(Validate(st.item, st.items[i]), LAMBDA res :
      LET st1 == [st EXCEPT
                    !.value = IF shared THEN ListV([st.value.v EXCEPT ![i] = res.inp])
                              ELSE st.value,
                    !.items[i] = res.inp,
                    !.item = res.sch]
          unwrapped == Unwrap(res.res)
      IN IF res.exc # "none" THEN [exc |-> res.exc, returned |-> FALSE, st |-> st1]
         ELSE IF ~Valid(res.res)
         THEN IF res.res.error = <<>>
              THEN [exc |-> "AssertionError", returned |-> FALSE, st |-> st1]
              ELSE [exc |-> "none", returned |-> TRUE,
                    st |-> [st1 EXCEPT !.result = Invalidate(st1.result,
                             <<Inherit(res.res.error[1], <<StrV(<<"[", "]">>)>>)>>)]]
         ELSE IF unwrapped.exc # "none"
         THEN [exc |-> unwrapped.exc, returned |-> FALSE, st |-> st1]
         ELSE ArrayItems([st1 EXCEPT !.values = Append(st1.values, unwrapped.val)],
                         i + 1, shared))

\* Array.validate
ArrayValidate(s, value) ==
    LET shared == value.t = "list" /\ ~(s.nullable /\ IsNone(value))
    IN With(CoerceValue(s, value, "list"), LAMBDA c :
         IF Stops(c) THEN Out(c.exc, c.res, value, FALSE, s)
         ELSE With(LengthStep(s, c.res, Unwrap(c.res)), LAMBDA l :
           LET data == Unwrap(l.res)
           IN IF Stops(l) THEN Out(l.exc, l.res, value, FALSE, s)
              ELSE IF data.exc # "none" THEN Out(data.exc, l.res, value, FALSE, s)
              ELSE IF ~IsIterable(data.val) THEN Out("TypeError", l.res, value, FALSE, s)
              ELSE With(ArrayItems([value |-> value, items |-> IterItems(data.val),
                                    values |-> <<>>, item |-> s.item[1],
                                    result |-> l.res], 1, shared), LAMBDA loop :
                LET sch == [s EXCEPT !.item = <<loop.st.item>>]
                IN IF loop.exc # "none" \/ loop.returned
                   THEN Out(loop.exc, loop.st.result, loop.st.value, FALSE, sch)
                   ELSE Out("none", Ok(ListV(loop.st.values), FALSE),
                            loop.st.value, FALSE, sch))))

\* OneOf.validate from the i-th alternative on, causes the errors of the
\* alternatives before it: the first alternative that accepts the value (or
\* raises) decides, and when none accepts the failure carries every
\* alternative's error. The alternatives are handed the same value object.
OneOfAlternatives(s, value, i, causes) ==
    IF i > Len(s.alts)
    THEN Out("none",
             Err(ValidationErrorCause(<<Text("value didn't match any of the schemas")>>,
                                      <<>>, "oneOf", <<causes>>)),
             value, FALSE, s)
    ELSE With(Validate(s.alts[i], value), LAMBDA r :
           LET sch == [s EXCEPT !.alts[i] = r.sch]
           IN IF r.exc # "none" \/ Valid(r.res) THEN Out(r.exc, r.res, r.inp, r.alias, sch)
              ELSE OneOfAlternatives(sch, r.inp, i + 1, causes \o r.res.error))

\* OneOf.validate
OneOfValidate(s, value) == OneOfAlternatives(s, value, 1, <<>>)

\* schema.validate(value)
Validate(s, value) ==
    CASE s.kind = "String" -> StringValidate(s, value)
      [] s.kind = "Integer" -> IntegerValidate(s, value)
      [] s.kind = "Float" -> FloatValidate(s, value)
      [] s.kind = "Boolean" -> BooleanValidate(s, value)
      [] s.kind = "Object" -> ObjectValidate(s, value)
      [] s.kind = "Array" -> ArrayValidate(s, value)
      [] s.kind = "OneOf" -> OneOfValidate(s, value)

-----------------------------------------------------------------------------
(* The caller: it builds and configures schema nodes with the builder      *)
(* methods and calls validate on values.                                    *)

ScalarKinds == {"String", "Integer", "Float", "Boolean"}
HasEnum(s) == s.kind \in {"String", "Integer", "Float", "Boolean"}
HasLength(s) == s.kind \in {"String", "Integer", "Float", "Array"}

\* the number of schema nodes of a tree
RECURSIVE Size(_)
RECURSIVE SizeSum(_)
SizeSum(body) == IF body = <<>> THEN 0 ELSE Size(Head(body).schema) + SizeSum(Tail(body))
Size(s) ==
    IF ~IsSchemaNode(s) THEN 1 ELSE
    1 + (IF s.body = <<>> THEN 0 ELSE SizeSum(s.body[1]))
      + (IF s.item = <<>> THEN 0 ELSE Size(s.item[1]))
      + SizeSum([i \in 1..Len(s.alts) |-> [schema |-> s.alts[i]]])

\* the number of modifiers set in a tree
RECURSIVE Modifiers(_)
RECURSIVE ModifiersSum(_)
ModifiersSum(body) ==
    IF body = <<>> THEN 0 ELSE Modifiers(Head(body).schema) + ModifiersSum(Tail(body))
Modifiers(s) ==
    IF ~IsSchemaNode(s) THEN 0 ELSE
    Cardinality({m \in {"nullable", "optional", "coerce", "default", "enum", "min", "max", "regex"} :
        CASE m = "nullable" -> s.nullable
          [] m = "optional" -> s.optional
          [] m = "coerce" -> s.coerce
          [] m = "default" -> ~IsNone(s.default)
          [] m = "enum" -> s.enum # <<>>
          [] m = "min" -> s.min # <<>>
          [] m = "max" -> s.max # <<>>
          [] m = "regex" -> s.regex # <<>>})
      + (IF s.body = <<>> THEN 0 ELSE ModifiersSum(s.body[1]))
      + (IF s.item = <<>> THEN 0 ELSE Modifiers(s.item[1]))
      + ModifiersSum([i \in 1..Len(s.alts) |-> [schema |-> s.alts[i]]])

\* the values handed to default(..) and enum(..)
DefaultValues == {IntV(1), StrV(<<"a", "b">>)}
EnumChoices == {<<>>, <<StrV(<<"a", "b">>)>>, <<IntV(1), IntV(2)>>, <<StrV(<<"1">>), BoolV(TRUE)>>}

\* the values handed to a scalar schema's validate
ScalarInputs ==
    {NoneV, BoolV(TRUE), BoolV(FALSE), FloatV(2), FloatV(3)}
    \cup {IntV(n) : n \in 0..(MaxBound + 1)}
    \cup {StrV(<<>>), StrV(<<"1">>), StrV(<<"a", "b">>), StrV(<<"1", ".", "5">>),
          StrV(<<"T", "r", "u", "e">>), StrV(<<"a", "b", "1">>), StrV(<<"N", "o">>)}
    \cup {DictV(<<>>), ListV(<<IntV(1)>>)}

\* no validate call made on the current configuration yet
NoCall == [done |-> FALSE, exc |-> "none", res |-> Ok(NoneV, TRUE), alias |-> FALSE]

\* no accessor call made on the caller's JDict / JList yet
NoAccess ==
    [cls |-> "JDict", data |-> DictV(<<>>), op |-> "none", key |-> NoneV, type |-> "int",
     default |-> NoneV, exc |-> "none", val |-> NoneV, chain |-> <<>>]
\* no validate call is being followed
NoRun == [active |-> FALSE, stack |-> <<>>]
\* the caller has not used the result of the last call yet; otherwise op is
\* the operation, arg its argument, and exc / val / res what it raised or
\* returned (val a value, res a ValidationResult)
NoUse == [op |-> "none", arg |-> NoneV, exc |-> "none", val |-> NoneV, res |-> Ok(NoneV, TRUE)]

Init ==
    /\ schema = NewSchema("String")
    /\ fields = <<>>
    /\ input = NoneV
    /\ called = NoneV
    /\ before = NewSchema("String")
    /\ outcome = NoCall
    /\ legacy = NewLegacy
    /\ use = NoUse
    /\ access = NoAccess
    /\ run = NoRun

\* a builder call: the current node becomes s
Configure(s, l) ==
    /\ ~outcome.done
    /\ Modifiers(s) + ModifiersSum(fields) <= MaxModifiers
    /\ schema' = s
    /\ before' = s
    /\ legacy' = l
    /\ UNCHANGED <<fields, input, called, outcome, use, access, run>>

\* String(), Integer(), Float(), Boolean()
Construct(kinds) == \E kind \in kinds : Configure(NewSchema(kind), NewLegacy)

Nullable == Configure(nullable(schema), legacy)
Optional == Configure(optional(schema), LegacyOptional(legacy))
Coerce == Configure(coerce(schema), legacy)
Default == \E v \in DefaultValues : Configure(default(schema, v), legacy)
Enum ==
    /\ HasEnum(schema)
    /\ \E values \in EnumChoices :
        Configure(enum(schema, values), LegacyEnumCall(legacy, values))
Min == HasLength(schema) /\ \E n \in 0..MaxBound, inclusive \in BOOLEAN :
            Configure(min(schema, n, inclusive), legacy)
Max == HasLength(schema) /\ \E n \in 0..MaxBound, inclusive \in BOOLEAN :
            Configure(max(schema, n, inclusive), legacy)
Regex == schema.kind = "String" /\ Configure(regex(schema, "^[a-z]+$"), legacy)

\* schema.validate(value) on a finished tree, the outcome recorded
ValidateCall(values) ==
    /\ ~outcome.done
    /\ fields = <<>>
    /\ \E value \in values : \E out \in {Validate(schema, value)} :
           /\ called' = value
           /\ before' = schema
           /\ input' = out.inp
           /\ schema' = out.sch
           /\ outcome' = [done |-> TRUE, exc |-> out.exc, res |-> out.res, alias |-> out.alias]
           /\ legacy' = [legacy EXCEPT !.check = <<LegacyEnumValidate(legacy.enum, value)>>]
           /\ UNCHANGED <<fields, use, access, run>>

\* the caller lets go of the value and of the result of the last call and
\* keeps the schema
Discard ==
    /\ outcome.done
    /\ before' = schema
    /\ input' = NoneV
    /\ called' = NoneV
    /\ outcome' = NoCall
    /\ legacy' = [legacy EXCEPT !.check = <<>>]
    /\ use' = NoUse
    /\ UNCHANGED <<schema, fields, access, run>>

\* the schema built by the same builder calls without coerce(), on every node
RECURSIVE Strict(_)
Strict(s) ==
    IF ~IsSchemaNode(s) THEN s ELSE
    [s EXCEPT !.coerce = FALSE,
              !.body = IF s.body = <<>> THEN <<>>
                       ELSE <<[i \in 1..Len(s.body[1]) |->
                                [k |-> s.body[1][i].k, schema |-> Strict(s.body[1][i].schema)]]>>,
              !.item = IF s.item = <<>> THEN <<>> ELSE <<Strict(s.item[1])>>,
              !.alts = [i \in 1..Len(s.alts) |-> Strict(s.alts[i])]]

\* the caller hands the value a successful coercing call returned to the
\* strict schema's validate
Revalidate ==
    /\ outcome.done
    /\ use.op = "none"
    /\ outcome.exc = "none"
    /\ Valid(outcome.res)
    /\ before.coerce
    /\ \E out \in {Validate(Strict(before), outcome.res.data)} :
            use' = [op |-> "revalidate", arg |-> outcome.res.data,
                    exc |-> out.exc, val |-> NoneV, res |-> out.res]
    /\ UNCHANGED <<schema, fields, input, called, before, outcome, legacy, access, run>>

\* a caller configuring and using one scalar schema node
Next ==
    \/ Construct(ScalarKinds)
    \/ Nullable
    \/ Optional
    \/ Coerce
    \/ Default
    \/ Enum
    \/ Min
    \/ Max
    \/ Regex
    \/ ValidateCall(ScalarInputs)
    \/ Revalidate
    \/ Discard

Spec == Init /\ [][Next]_vars

-----------------------------------------------------------------------------
(* A caller building a schema tree: the fields of the next Object(...) are  *)
(* collected in `fields`; a nested container is built before its siblings.  *)

TreeKinds == {"String", "Integer"}
FieldNames == {<<"a">>, <<"b">>}

\* the current node is declared as the field `name` of the next Object(...);
\* the caller goes on with a new scalar node
AddField ==
    /\ ~outcome.done
    /\ Len(fields) < MaxFields
    /\ SizeSum(fields) + Size(schema) + 1 <= MaxNodes
    /\ \E name \in FieldNames, kind \in TreeKinds :
        /\ \A i \in 1..Len(fields) : fields[i].k # StrV(name)
        /\ fields' = Append(fields, [k |-> StrV(name), schema |-> schema])
        /\ schema' = NewSchema(kind)
        /\ before' = NewSchema(kind)
        /\ legacy' = NewLegacy
    /\ UNCHANGED <<input, called, outcome, use, access, run>>

\* Object(body), Object() when no field was declared
MakeObject ==
    /\ ~outcome.done
    /\ SizeSum(fields) + 1 <= MaxNodes
    /\ schema' = [NewSchema("Object") EXCEPT !.body = IF fields = <<>> THEN <<>> ELSE <<fields>>]
    /\ before' = schema'
    /\ fields' = <<>>
    /\ UNCHANGED <<input, called, outcome, legacy, use, access, run>>

\* Array(item)
MakeArray ==
    /\ ~outcome.done
    /\ SizeSum(fields) + Size(schema) + 1 <= MaxNodes
    /\ schema' = [NewSchema("Array") EXCEPT !.item = <<schema>>]
    /\ before' = schema'
    /\ UNCHANGED <<fields, input, called, outcome, legacy, use, access, run>>

\* Object.withAdditionalProperties(flag)
withAdditionalProperties(s, flag) == [s EXCEPT !.allowAdditionalProperties = flag]
WithAdditionalProperties ==
    /\ schema.kind = "Object"
    /\ \E flag \in BOOLEAN : Configure(withAdditionalProperties(schema, flag), legacy)

\* the values handed to a schema tree's validate
KeyA == StrV(<<"a">>)
KeyB == StrV(<<"b">>)
TreeLeaves == {IntV(1), StrV(<<"5">>), NoneV}
FlatDicts ==
    {DictV(a \o b) :
        a \in {<<>>} \cup {<<[k |-> KeyA, val |-> x]>> : x \in TreeLeaves},
        b \in {<<>>, <<[k |-> KeyB, val |-> IntV(1)]>>}}
FlatLists == {ListV(<<>>), ListV(<<IntV(1)>>), ListV(<<IntV(1), StrV(<<"5">>)>>)}
SmallDicts == {d \in FlatDicts : Len(d.v) <= 1}
TreeInputs ==
    TreeLeaves \cup FlatDicts \cup FlatLists
    \cup {DictV(<<[k |-> KeyA, val |-> d]>>) : d \in SmallDicts \cup {ListV(<<IntV(1)>>)}}
    \cup {DictV(<<[k |-> KeyA, val |-> d], [k |-> KeyB, val |-> IntV(1)]>>) : d \in SmallDicts}
    \cup {ListV(<<d>>) : d \in SmallDicts}
    \cup {ListV(<<IntV(1), DictV(<<[k |-> KeyA, val |-> IntV(1)]>>)>>)}
    \cup {StrV(<<"{", "\"", "a", "\"", ":", "1", "}">>)}

\* The caller uses the result of the last validate call: schema.expect(value,
\* msg) is validate(value).expect(msg), and unwrap / unwrapOr are called on
\* the result validate returned.
UseResult(op, arg, out) ==
    /\ outcome.done
    /\ outcome.exc = "none"
    /\ use.op = "none"
    /\ use' = [op |-> op, arg |-> arg, exc |-> out.exc, val |-> out.val, res |-> outcome.res]
    /\ UNCHANGED <<schema, fields, input, called, before, outcome, legacy, access, run>>

Messages == {NoneV, StrV(<<"a", "b">>), StrV(<<>>)}
ExpectCall == \E msg \in Messages : UseResult("expect", msg, Expect(outcome.res, msg))
UnwrapCall == UseResult("unwrap", NoneV, Unwrap(outcome.res))
UnwrapOrCall == \E d \in DefaultValues : UseResult("unwrapOr", d, UnwrapOr(outcome.res, d))

\* the values handed to validate before the result is used
UseInputs ==
    {NoneV, IntV(1), StrV(<<"a", "b">>), DictV(<<>>), DictV(<<[k |-> KeyA, val |-> IntV(1)]>>),
     StrV(<<"n", "u", "l", "l">>), StrV(<<"{", "\"", "a", "\"", ":", "1", "}">>)}

NextUse ==
    \/ Construct(ScalarKinds)
    \/ Nullable
    \/ Coerce
    \/ MakeObject
    \/ WithAdditionalProperties
    \/ ValidateCall(UseInputs)
    \/ ExpectCall
    \/ UnwrapCall
    \/ UnwrapOrCall
    \/ Discard

SpecUse == Init /\ [][NextUse]_vars

-----------------------------------------------------------------------------
(* ValidationResult and ValidationError used on their own: results made by  *)
(* ok(..) and err(..), merged by update, and errors re-rooted by inherit.   *)

\* ValidationResult.update(value) of schema.py: a failed value invalidates
\* the result, a successful one is ignored
LegacyUpdate(r, value) == IF ~Valid(value) THEN Invalidate(r, value.error) ELSE r

\* the errors and results handed to ok, err, update and inherit
ResultData == {NoneV, IntV(1), StrV(<<"a", "b">>)}
ResultErrors ==
    {ValidationError(<<Text("not in enum")>>, <<>>, "enum"),
     ValidationError(<<Text("too short")>>, <<StrV(<<"a">>), IntV(0)>>, "min"),
     ValidationErrorCause(<<Text("no match")>>, <<StrV(<<"b">>)>>, "oneOf",
        <<<<ValidationError(<<Text("not an int")>>, <<>>, "coerce")>>>>)}
Results ==
    {Ok(d, n) : d \in ResultData, n \in BOOLEAN}
    \cup {Err(e) : e \in ResultErrors}
    \cup {Invalidate(Err(e), <<>>) : e \in ResultErrors}
\* inherit is applied at most MaxInherits times to an error
MaxInherits == 2
PrefixPaths == {<<>>, <<StrV(<<"a">>)>>, <<IntV(1)>>, <<StrV(<<"b">>), IntV(0)>>}

\* r = ValidationResult.ok(..) or ValidationResult.err(..)
NewResult ==
    /\ use.op = "none"
    /\ \E r \in Results : use' = [NoUse EXCEPT !.op = "new", !.res = r]
    /\ UNCHANGED <<schema, fields, input, called, before, outcome, legacy, access, run>>

\* r.update(other): `res` keeps r as it was, `val` is r after the call
UpdateCall ==
    /\ use.op = "new"
    /\ \E other \in Results :
        With(Update(use.res, other), LAMBDA u :
            /\ use' = [use EXCEPT !.op = "update", !.arg = other,
                                  !.exc = u.exc, !.val = u.res]
            /\ legacy' = [legacy EXCEPT !.check = <<LegacyUpdate(use.res, other)>>])
    /\ UNCHANGED <<schema, fields, input, called, before, outcome, access, run>>

\* ValidationError.inherit(r.error, path) on a failed result r, and inherit
\* again on what it returned: `arg` lists the paths handed in, `val` is the
\* error returned last
InheritCall ==
    /\ use.op \in {"new", "inherit"}
    /\ ~Valid(use.res)
    /\ use.res.error # <<>>
    /\ Len(IF use.op = "new" THEN <<>> ELSE use.arg) < MaxInherits
    /\ \E path \in PrefixPaths :
        use' = [use EXCEPT
                   !.op = "inherit",
                   !.arg = (IF use.op = "new" THEN <<>> ELSE @) \o <<path>>,
                   !.val = Inherit(IF use.op = "new" THEN use.res.error[1] ELSE @, path)]
    /\ UNCHANGED <<schema, fields, input, called, before, outcome, legacy, access, run>>

\* the result is dropped
DropResult ==
    /\ use.op # "none"
    /\ use' = NoUse
    /\ legacy' = NewLegacy
    /\ UNCHANGED <<schema, fields, input, called, before, outcome, access, run>>

NextResult == NewResult \/ UpdateCall \/ InheritCall \/ DropResult

SpecResult == Init /\ [][NextResult]_vars

-----------------------------------------------------------------------------
(* A validate call followed call by call. Each call of validate on a node   *)
(* is a frame on `run.stack`: the node, the value it was handed, the result *)
(* of its coercion, the loop it is in and how far the loop has come. A step *)
(* either takes the next turn of the top frame's loop (which may call the   *)
(* child's validate: a new frame), or returns from the top frame to its     *)
(* caller. A frame that failed or raised has `stop` set and returns next.   *)

\* body = self._body or {}
Declared(sch) == IF sch.body = <<>> THEN <<>> ELSE sch.body[1]

\* a frame with no loop to run: a scalar's validate, or a container's that
\* stopped before its loop
Leaf(sch, val, res, stop) ==
    [sch |-> sch, val |-> val, res |-> res, phase |-> "leaf", items |-> <<>>,
     i |-> 1, stop |-> stop]

\* the frame of sch.validate(val) as it stands when the call reaches its loop
Enter(sch, val) ==
    CASE sch.kind = "Object" ->
            \* result = self._coerceValue(value, dict); for key, schema in body.items()
            With(CoerceValue(sch, val, "dict"), LAMBDA c :
              IF Stops(c) THEN Leaf(sch, val, c.res, TRUE)
              ELSE [sch |-> sch, val |-> val, res |-> c.res, phase |-> "fields",
                    items |-> Declared(sch),
                    i |-> 1, stop |-> FALSE])
      [] sch.kind = "Array" ->
            \* coercion, bound check, for item in result.unwrap()
            With(CoerceValue(sch, val, "list"), LAMBDA c :
              IF Stops(c) THEN Leaf(sch, val, c.res, TRUE)
              ELSE With(LengthStep(sch, c.res, Unwrap(c.res)), LAMBDA l :
                IF Stops(l) \/ Unwrap(l.res).exc # "none" \/ ~IsIterable(l.res.data)
                THEN Leaf(sch, val, l.res, TRUE)
                ELSE [sch |-> sch, val |-> val, res |-> l.res, phase |-> "items",
                      items |-> IterItems(l.res.data), i |-> 1, stop |-> FALSE]))
      [] OTHER ->
            With(Validate(sch, val), LAMBDA out : Leaf(sch, val, out.res, Stops(out)))

\* the call returns at once with a failure or an exception
Stop(f) == [f EXCEPT !.stop = TRUE]
\* a variant of the loop's next turn that stays on the same item
AdvanceStays(f) == f
\* the for loop goes on with its next item
Advance(f) == [f EXCEPT !.i = @ + 1]

\* the top frame has nothing left to do but return
Returning(f) ==
    \/ f.stop
    \/ /\ f.i > Len(f.items)
       /\ f.phase = "fields" => f.sch.allowAdditionalProperties

\* one step of the call stack
StepFrames(stack) ==
    LET f == stack[Len(stack)]
        below == SubSeq(stack, 1, Len(stack) - 1)
    IN IF Returning(f)
       THEN \* return to the caller: it stops on a failed child and on a child
            \* result that does not unwrap, and goes on with its loop otherwise
            IF below = <<>> THEN <<>>
            ELSE SubSeq(below, 1, Len(below) - 1) \o
                 <<IF f.stop \/ Unwrap(f.res).exc # "none" THEN Stop(below[Len(below)])
                   ELSE Advance(below[Len(below)])>>
       ELSE IF f.phase = "fields" /\ f.i > Len(f.items)
       THEN \* for key in result.unwrap(): if key not in body
            below \o <<IF Unwrap(f.res).exc # "none" \/ ~IsIterable(f.res.data) THEN Stop(f)
                       ELSE [f EXCEPT !.phase = "keys", !.items = IterItems(f.res.data),
                                      !.i = 1]>>
       ELSE IF f.phase = "keys"
       THEN below \o <<IF \E n \in 1..Len(Declared(f.sch)) :
                              PyEq(Declared(f.sch)[n].k, f.items[f.i])
                       THEN Advance(f) ELSE Stop(f)>>
       ELSE IF f.phase = "items"
       THEN \* res = self._item.validate(item)
            stack \o <<Enter(f.sch.item[1], f.items[f.i])>>
       ELSE \* the loop over the declared fields
            LET key == f.items[f.i].k
                schemaI == f.items[f.i].schema
                data == Unwrap(f.res)
                has == Contains(data.val, key)
                item == Subscript(f.val, key)
            IN IF data.exc # "none" THEN below \o <<Stop(f)>>
               ELSE IF has.exc # "none" THEN below \o <<Stop(f)>>
               ELSE IF ~has.val.v
               THEN below \o <<IF schemaI.optional THEN Advance(f) ELSE Stop(f)>>
               ELSE IF item.exc # "none" THEN below \o <<Stop(f)>>
               ELSE \* keyRes = schema.validate(value[key])
                    stack \o <<Enter(schemaI, item.val)>>

\* the values handed to a followed call
RunInputs ==
    {IntV(1), NoneV, StrV(<<"[", "1", "]">>),
     DictV(<<>>), DictV(<<[k |-> KeyA, val |-> IntV(1)]>>),
     DictV(<<[k |-> KeyA, val |-> StrV(<<"5">>)], [k |-> KeyB, val |-> IntV(1)]>>),
     DictV(<<[k |-> KeyA, val |-> DictV(<<[k |-> KeyA, val |-> IntV(1)]>>)]>>),
     DictV(<<[k |-> KeyA, val |-> ListV(<<IntV(1), StrV(<<"5">>)>>)]>>),
     ListV(<<>>), ListV(<<IntV(1), StrV(<<"5">>)>>),
     ListV(<<DictV(<<[k |-> KeyA, val |-> IntV(1)]>>), DictV(<<>>)>>),
     ListV(<<ListV(<<IntV(1), IntV(1)>>)>>)}

\* schema.validate(value) is called on the finished tree
StartRun ==
    /\ ~run.active
    /\ ~outcome.done
    /\ fields = <<>>
    /\ \E value \in RunInputs :
        run' = [active |-> TRUE, stack |-> <<Enter(schema, value)>>]
    /\ UNCHANGED <<schema, fields, input, called, before, outcome, legacy, use, access>>

\* the call goes one step on; it is over when its last frame has returned
RunStep ==
    /\ run.active
    /\ \E stack \in {StepFrames(run.stack)} :
        run' = [active |-> stack # <<>>, stack |-> stack]
    /\ UNCHANGED <<schema, fields, input, called, before, outcome, legacy, use, access>>

NextRun ==
    \/ (~run.active /\ Construct(TreeKinds))
    \/ (~run.active /\ Optional)
    \/ (~run.active /\ Coerce)
    \/ (~run.active /\ AddField)
    \/ (~run.active /\ MakeObject)
    \/ (~run.active /\ MakeArray)
    \/ (~run.active /\ WithAdditionalProperties)
    \/ StartRun
    \/ RunStep

\* The interpreter goes on with a call it is in: weak fairness of RunStep,
\* WF_vars(RunStep), with ENABLED <<RunStep>>_vars written out as run.active
\* (a call that is active has a next step, and the step changes the stack).
RunFairness == []<>(~run.active) \/ []<><<RunStep>>_vars

SpecRun == Init /\ [][NextRun]_vars /\ RunFairness

-----------------------------------------------------------------------------
(* JDict and JList (pyaddict.py): typed accessors over a mapping / a list.  *)

\* type_(): the empty value of a builtin type
EmptyOf(type_) ==
    CASE type_ = "int" -> IntV(0)
      [] type_ = "float" -> FloatV(0)
      [] type_ = "bool" -> BoolV(FALSE)
      [] type_ = "str" -> StrV(<<>>)
      [] type_ = "list" -> ListV(<<>>)
      [] type_ = "dict" -> DictV(<<>>)

\* default or type_()
DefaultOr(fallback, type_) == IF ToBool(fallback).val.v THEN fallback ELSE EmptyOf(type_)

\* a variant of ensure without the try / except around the lookup
EnsureUncaught(data, key, type_, fallback) ==
    With(Subscript(data, key), LAMBDA value :
      IF value.exc # "none" THEN Raises(value.exc)
      ELSE IF IsInstance(value.val, type_) THEN Returns(value.val)
      ELSE Returns(DefaultOr(fallback, type_)))

\* JDict.ensure(key, type_, default) and JList.ensure(index, type_, default):
\* the two bodies are the same, the bare except catches what the lookup raises
Ensure(data, key, type_, fallback) ==
    With(Subscript(data, key), LAMBDA value :
      IF value.exc # "none" THEN Returns(DefaultOr(fallback, type_))
      ELSE IF IsInstance(value.val, type_) THEN Returns(value.val)
      ELSE Returns(DefaultOr(fallback, type_)))

\* JDict.assertGet(key, type_)
JDictAssertGet(data, key, type_) ==
    With(Contains(data, key), LAMBDA has :
      IF has.exc # "none" THEN Raises(has.exc)
      ELSE IF ~has.val.v THEN Raises("AssertionError")
      ELSE With(Subscript(data, key), LAMBDA val :
        IF val.exc # "none" THEN Raises(val.exc)
        ELSE IF ~IsInstance(val.val, type_) THEN Raises("AssertionError")
        ELSE Returns(val.val)))

\* JList.assertGet(index, type_)
JListAssertGet(data, index, type_) ==
    With(PyLess(index, Len(data.v)), LAMBDA inside :
      IF inside.exc # "none" THEN Raises(inside.exc)
      ELSE IF ~inside.val.v THEN Raises("AssertionError")
      ELSE With(Subscript(data, index), LAMBDA val :
        IF val.exc # "none" THEN Raises(val.exc)
        ELSE IF ~IsInstance(val.val, type_) THEN Raises("AssertionError")
        ELSE Returns(val.val)))

\* the mappings and lists handed to JDict(..) and JList(..), the keys and
\* indices asked for, the types and the defaults
MaxIndex == 3
AccessDicts ==
    {DictV(<<>>),
     DictV(<<[k |-> KeyA, val |-> IntV(1)]>>),
     DictV(<<[k |-> KeyA, val |-> StrV(<<"5">>)]>>),
     DictV(<<[k |-> KeyA, val |-> BoolV(TRUE)], [k |-> KeyB, val |-> ListV(<<IntV(1)>>)]>>),
     DictV(<<[k |-> KeyA, val |-> NoneV], [k |-> KeyB, val |-> IntV(0)]>>),
     DictV(<<[k |-> KeyA, val |-> DictV(<<[k |-> KeyB, val |-> StrV(<<"5">>)]>>)],
             [k |-> KeyB, val |-> ListV(<<DictV(<<[k |-> KeyA, val |-> IntV(1)]>>),
                                          DictV(<<[k |-> KeyA, val |-> StrV(<<"5">>)]>>)>>)]>>)}
AccessLists ==
    {ListV(<<>>), ListV(<<IntV(1)>>), ListV(<<StrV(<<"5">>), IntV(0)>>),
     ListV(<<IntV(1), IntV(2), IntV(3)>>),
     ListV(<<DictV(<<[k |-> KeyA, val |-> IntV(1)]>>),
             DictV(<<[k |-> KeyA, val |-> StrV(<<"5">>)], [k |-> KeyB, val |-> ListV(<<IntV(2)>>)]>>)>>)}
AccessKeys == {KeyA, KeyB, StrV(<<"c">>)}
AccessIndices == {IntV(n) : n \in (0 - MaxIndex - 1)..MaxIndex}
AccessTypes == {"int", "float", "bool", "str", "list", "dict"}
AccessDefaults ==
    {IntV(0), IntV(1), BoolV(FALSE), FloatV(3), StrV(<<>>), StrV(<<"a", "b">>),
     ListV(<<>>), ListV(<<IntV(1)>>), DictV(<<>>)}

\* JDict(data) / JList(data), data None when not given (the empty
\* sequence here): self._data = data or {} / data or []
JDictInit ==
    /\ \E data \in {<<>>} \cup {<<d>> : d \in AccessDicts} :
        access' = [NoAccess EXCEPT !.cls = "JDict",
                                   !.data = IF data # <<>> /\ ToBool(data[1]).val.v
                                            THEN data[1] ELSE DictV(<<>>)]
    /\ UNCHANGED schemaVars
JListInit ==
    /\ \E data \in {<<>>} \cup {<<d>> : d \in AccessLists} :
        access' = [NoAccess EXCEPT !.cls = "JList",
                                   !.data = IF data # <<>> /\ ToBool(data[1]).val.v
                                            THEN data[1] ELSE ListV(<<>>)]
    /\ UNCHANGED schemaVars

\* an accessor call of the caller, with what it raised or returned
Accessor(op, key, type_, fallback, out) ==
    /\ access' = [access EXCEPT !.op = op, !.key = key, !.type = type_,
                                !.default = fallback, !.exc = out.exc, !.val = out.val]
    /\ UNCHANGED schemaVars

\* ensure(key, type_) and ensure(key, type_, default), default of the type
EnsureCall ==
    \E key \in (IF access.cls = "JDict" THEN AccessKeys ELSE AccessIndices), type_ \in AccessTypes :
        \E fallback \in {NoneV} \cup {d \in AccessDefaults : IsInstance(d, type_)} :
            Accessor("ensure", key, type_, fallback, Ensure(access.data, key, type_, fallback))

\* assertGet(key, type_)
AssertGetCall ==
    \E key \in (IF access.cls = "JDict" THEN AccessKeys ELSE AccessIndices), type_ \in AccessTypes :
        Accessor("assertGet", key, type_, NoneV,
                 IF access.cls = "JDict" THEN JDictAssertGet(access.data, key, type_)
                 ELSE JListAssertGet(access.data, key, type_))

NextAccess ==
    \/ JDictInit
    \/ JListInit
    \/ EnsureCall
    \/ AssertGetCall

SpecAccess == Init /\ [][NextAccess]_vars

-----------------------------------------------------------------------------
(* JListIterator and JChain (pyaddict.py)                                   *)

\* JDict.optionalGet / JList.optionalGet: the two bodies are the same
OptionalGet(data, key, type_) ==
    With(Subscript(data, key), LAMBDA value :
      IF value.exc # "none" THEN Returns(NoneV)
      ELSE IF IsInstance(value.val, type_) THEN Returns(value.val)
      ELSE Returns(NoneV))

\* JDict.optionalCast / JList.optionalCast: type_(self._data[key]) in a
\* try with a bare except
OptionalCast(data, key, type_) ==
    With(Subscript(data, key), LAMBDA value :
      IF value.exc # "none" THEN Returns(NoneV)
      ELSE With(Cast(type_, value.val), LAMBDA c :
        IF c.exc # "none" THEN Returns(NoneV) ELSE Returns(c.val)))

\* JListIterator.optionalCast(type_): the comprehension calls optionalGet
IteratorOptionalCast(data, type_) ==
    Returns(ListV([i \in 1..Len(data.v) |-> OptionalGet(data, IntV(i - 1), type_).val]))

\* re.sub(r"(\w)\[", r"\1.[", chain)
IsWord(c) == IsDigit(c) \/ IsLower(c) \/ IsUpper(c) \/ c = "_"
RECURSIVE DotBrackets(_, _)
DotBrackets(cs, i) ==
    IF i > Len(cs) THEN <<>>
    ELSE (IF cs[i] = "[" /\ i > 1 /\ IsWord(cs[i - 1]) THEN <<".", "[">> ELSE <<cs[i]>>)
            \o DotBrackets(cs, i + 1)

\* chain.split(".")
RECURSIVE SplitDots(_, _)
SplitDots(cs, piece) ==
    IF cs = <<>> THEN <<piece>>
    ELSE IF Head(cs) = "." THEN <<piece>> \o SplitDots(Tail(cs), <<>>)
    ELSE SplitDots(Tail(cs), Append(piece, Head(cs)))

\* _ChainLink(key): [exc, key, optional, index]; the index test looks at the
\* key as it was handed in, the "?" still on it
ChainLink(key) ==
    LET optional_ == key # <<>> /\ key[Len(key)] = "?"
        index == key # <<>> /\ key[1] = "[" /\ key[Len(key)] = "]"
    IN IF index
       THEN With(ParseInt(SubSeq(key, 2, Len(key) - 1)), LAMBDA n :
              [exc |-> n.exc, key |-> n.val, optional |-> optional_, index |-> TRUE])
       ELSE [exc |-> "none", optional |-> optional_, index |-> FALSE,
             key |-> StrV(IF optional_ THEN SubSeq(key, 1, Len(key) - 1) ELSE key)]

\* JChain._createChainLinks(chain): [exc, links]
RECURSIVE ChainLinks(_, _, _)
ChainLinks(pieces, i, links) ==
    IF i > Len(pieces) THEN [exc |-> "none", links |-> links]
    ELSE With(ChainLink(pieces[i]), LAMBDA link :
           IF link.exc # "none" THEN [exc |-> link.exc, links |-> links]
           ELSE ChainLinks(pieces, i + 1, Append(links, link)))
CreateChainLinks(chain) == ChainLinks(SplitDots(DotBrackets(chain, 1), <<>>), 1, <<>>)

\* the loop of JChain._prepare over the links before the last one:
\* [exc, resolved, value]
PrepareStop(exc, resolved, value) == [exc |-> exc, resolved |-> resolved, value |-> value]
RECURSIVE PrepareLinks(_, _, _, _)
PrepareLinks(value, links, i, preventException) ==
    IF i > Len(links) THEN PrepareStop("none", TRUE, value)
    ELSE LET link == links[i]
             checked == preventException \/ link.optional
         IN IF checked /\ link.index /\ ~IsIterable(value) THEN PrepareStop("TypeError", FALSE, value)
            ELSE IF checked /\ link.index /\ link.key.v >= Len(IterItems(value))
            THEN PrepareStop("none", FALSE, value)
            ELSE With(IF checked /\ ~link.index THEN Contains(value, link.key)
                      ELSE Returns(BoolV(TRUE)), LAMBDA has :
              IF has.exc # "none" THEN PrepareStop(has.exc, FALSE, value)
              ELSE IF ~has.val.v THEN PrepareStop("none", FALSE, value)
              ELSE IF value.t = "dict" /\ link.index THEN PrepareStop("AssertionError", FALSE, value)
              ELSE IF value.t # "dict" /\ (value.t # "list" \/ ~link.index)
              THEN PrepareStop("AssertionError", FALSE, value)
              ELSE With(Subscript(value, link.key), LAMBDA next :
                IF next.exc # "none" THEN PrepareStop(next.exc, FALSE, value)
                ELSE PrepareLinks(next.val, links, i + 1, preventException)))

\* JChain._prepare(chain, preventException) of the chain of a JDict / JList:
\* [exc, resolved, parent, key]
Prepare(cls, data, chain, preventException) ==
    With(CreateChainLinks(chain), LAMBDA made :
      IF made.exc # "none"
      THEN [exc |-> made.exc, resolved |-> FALSE, parent |-> data, key |-> NoneV]
      ELSE IF cls = "JDict" /\ data.v = <<>>
      THEN [exc |-> "AssertionError", resolved |-> FALSE, parent |-> data, key |-> NoneV]
      ELSE LET last == made.links[Len(made.links)]
           IN With(PrepareLinks(data, SubSeq(made.links, 1, Len(made.links) - 1), 1,
                                preventException), LAMBDA walk :
                [exc |-> walk.exc, resolved |-> walk.resolved, key |-> last.key,
                 parent |-> IF last.index /\ walk.value.t = "list" THEN walk.value
                            ELSE IF ~last.index /\ walk.value.t = "dict" THEN walk.value
                            ELSE DictV(<<>>)]))

\* JChain.optionalGet(chain, type_) and JChain.optionalCast(chain, type_)
ChainOptionalGet(cls, data, chain, type_) ==
    With(Prepare(cls, data, chain, TRUE), LAMBDA p :
      IF p.exc # "none" THEN Raises(p.exc)
      ELSE IF ~p.resolved THEN Returns(NoneV)
      ELSE OptionalGet(p.parent, p.key, type_))
ChainOptionalCast(cls, data, chain, type_) ==
    With(Prepare(cls, data, chain, TRUE), LAMBDA p :
      IF p.exc # "none" THEN Raises(p.exc)
      ELSE IF ~p.resolved THEN Returns(NoneV)
      ELSE OptionalCast(p.parent, p.key, type_))

\* The chains the caller writes: one to MaxLinks links, each a name or an
\* index in brackets, with or without a trailing "?", joined by dots.
MaxLinks == 3
MaxChainIndex == 1
LinkChoices ==
    {[index |-> FALSE, key |-> StrV(name), optional |-> o] : name \in FieldNames, o \in BOOLEAN}
    \cup {[index |-> TRUE, key |-> IntV(n), optional |-> o] : n \in 0..MaxChainIndex, o \in BOOLEAN}
ChainChoices == UNION {[1..n -> LinkChoices] : n \in 1..MaxLinks}
LinkText(link) ==
    (IF link.index THEN <<"[">> \o IntChars(link.key.v) \o <<"]">> ELSE link.key.v)
        \o (IF link.optional THEN <<"?">> ELSE <<>>)
RECURSIVE ChainText(_, _)
ChainText(links, i) ==
    IF i > Len(links) THEN <<>>
    ELSE (IF i > 1 THEN <<".">> ELSE <<>>) \o LinkText(links[i]) \o ChainText(links, i + 1)
ChainTypes == {"int", "str", "dict"}

\* jlist.iterator().optionalCast(type_)
IteratorCastCall ==
    /\ access.op = "none"
    /\ access.cls = "JList"
    /\ \E type_ \in ChainTypes :
         Accessor("iterator.optionalCast", NoneV, type_, NoneV,
                  IteratorOptionalCast(access.data, type_))

\* x.chain().optionalGet(chain, type_) / optionalCast(chain, type_) on a
\* JDict / JList just made
ChainCall(op, links, type_, out) ==
    /\ access.op = "none"
    /\ access' = [access EXCEPT !.op = op, !.key = StrV(ChainText(links, 1)), !.chain = links,
                                !.type = type_, !.default = NoneV,
                                !.exc = out.exc, !.val = out.val]
    /\ UNCHANGED schemaVars
ChainGetCall ==
    \E links \in ChainChoices, type_ \in ChainTypes :
        ChainCall("chain.optionalGet", links, type_,
                  ChainOptionalGet(access.cls, access.data, ChainText(links, 1), type_))
ChainCastCall ==
    \E links \in ChainChoices, type_ \in ChainTypes :
        ChainCall("chain.optionalCast", links, type_,
                  ChainOptionalCast(access.cls, access.data, ChainText(links, 1), type_))

NextChain ==
    \/ JDictInit
    \/ JListInit
    \/ IteratorCastCall
    \/ ChainGetCall
    \/ ChainCastCall

SpecChain == Init /\ [][NextChain]_vars

-----------------------------------------------------------------------------
\* a field declared with a literal in place of a schema node
Literals == {IntV(1), StrV(<<"5">>), NoneV, ListV(<<>>), DictV(<<>>)}
AddLiteral ==
    /\ ~outcome.done
    /\ Len(fields) < MaxFields
    /\ SizeSum(fields) + Size(schema) + 1 <= MaxNodes
    /\ \E name \in FieldNames, literal \in Literals :
        /\ \A i \in 1..Len(fields) : fields[i].k # StrV(name)
        /\ fields' = Append(fields, [k |-> StrV(name), schema |-> literal])
    /\ UNCHANGED <<schema, input, called, before, outcome, legacy, use, access, run>>

\* the values handed to an Object with literal fields
LiteralInputs ==
    FlatDicts \cup {DictV(<<[k |-> KeyA, val |-> x]>>) : x \in {ListV(<<>>), DictV(<<>>)}}

NextLiteral ==
    \/ Construct(TreeKinds)
    \/ AddField
    \/ AddLiteral
    \/ MakeObject
    \/ WithAdditionalProperties
    \/ ValidateCall(LiteralInputs)
    \/ Discard

SpecLiteral == Init /\ [][NextLiteral]_vars

\* OneOf(A, B, ...): the collected nodes are the alternatives, in the order
\* they were collected
MakeOneOf ==
    /\ ~outcome.done
    /\ fields # <<>>
    /\ SizeSum(fields) + 1 <= MaxNodes
    /\ schema' = [NewSchema("OneOf") EXCEPT !.alts = [i \in 1..Len(fields) |-> fields[i].schema]]
    /\ before' = schema'
    /\ fields' = <<>>
    /\ UNCHANGED <<input, called, outcome, legacy, use, access, run>>

\* the values handed to a OneOf schema's validate
OneOfInputs ==
    {NoneV, IntV(1), StrV(<<"5">>), StrV(<<"a", "b">>), BoolV(TRUE), ListV(<<IntV(1)>>)}
    \cup {DictV(<<[k |-> KeyA, val |-> x]>>) : x \in {IntV(1), StrV(<<"5">>)}}

NextOneOf ==
    \/ Construct(ScalarKinds)
    \/ Coerce
    \/ AddField
    \/ MakeObject
    \/ MakeOneOf
    \/ ValidateCall(OneOfInputs)
    \/ Discard

SpecOneOf == Init /\ [][NextOneOf]_vars

NextTree ==
    \/ Construct(TreeKinds)
    \/ Optional
    \/ Coerce
    \/ Regex
    \/ AddField
    \/ MakeObject
    \/ MakeArray
    \/ WithAdditionalProperties
    \/ ValidateCall(TreeInputs)
    \/ Discard

SpecTree == Init /\ [][NextTree]_vars

-----------------------------------------------------------------------------
(* The properties of validate. They are stated on the record of the last    *)
(* call: `before` and `called` are the schema and the value as the call     *)
(* found them, `input` and `outcome` what it left.                          *)

\* the last call returned a ValidationResult
Returned == outcome.done /\ outcome.exc = "none"
\* ... a successful one
Succeeded == Returned /\ Valid(outcome.res)
\* ... a failed one
Rejected == Returned /\ ~Valid(outcome.res)
\* ... a failed one whose error has this kind and path
RejectedAs(kind, path) ==
    /\ Rejected
    /\ outcome.res.error # <<>>
    /\ outcome.res.error[1].validation = kind
    /\ outcome.res.error[1].path = path

\* the shape each scalar type coerces to
TargetShape(kind) ==
    CASE kind = "String" -> "str"
      [] kind = "Integer" -> "int"
      [] kind = "Float" -> "float"
      [] kind = "Boolean" -> "bool"

\* C1: a schema marked nullable, optional or default that is handed None
\* succeeds and returns the configured default (None when none was set),
\* whatever enum and bounds are configured: those checks neither reject nor
\* abort the call.
C1_AbsentReturnsDefault ==
    (outcome.done /\ before.nullable /\ IsNone(called))
        => (Succeeded /\ outcome.res.data = before.default)

\* The declared fields of an Object call, and how each fares on the value:
\* a field passes when its key is missing and its schema optional, or when
\* its schema accepts the value under the key.
BodyOf(s) == IF s.body = <<>> THEN <<>> ELSE s.body[1]
FieldMissing(body, value, i) == ~HasKey(value, body[i].k)
FieldResult(body, value, i) == Validate(body[i].schema, GetItem(value, body[i].k))
FieldRejects(body, value, i) ==
    /\ ~FieldMissing(body, value, i)
    /\ FieldResult(body, value, i).exc = "none"
    /\ ~Valid(FieldResult(body, value, i).res)
    /\ FieldResult(body, value, i).res.error # <<>>
FieldPasses(body, value, i) ==
    IF FieldMissing(body, value, i) THEN body[i].schema.optional
    ELSE FieldResult(body, value, i).exc = "none" /\ Valid(FieldResult(body, value, i).res)
FirstFailing(body, value, i) ==
    /\ ~FieldPasses(body, value, i)
    /\ \A j \in 1..(i - 1) : FieldPasses(body, value, j)
Undeclared(body, value) ==
    \E n \in 1..Len(value.v) : \A i \in 1..Len(body) : body[i].k # value.v[n].k
\* the last call was Object.validate on a mapping, and it returned
ObjectCall == Returned /\ before.kind = "Object" /\ called.t = "dict"

\* C2: when the key of a declared Object field is missing from the input, a
\* non-optional field makes Object.validate fail with kind "required" and
\* path [fieldName]; a missing optional field is no error and the remaining
\* fields are validated.
C2_MissingFieldRequired ==
    ObjectCall =>
        LET body == BodyOf(before)
        IN /\ \A i \in 1..Len(body) :
                (FirstFailing(body, called, i) /\ FieldMissing(body, called, i))
                    => RejectedAs("required", <<body[i].k>>)
           /\ ((\A i \in 1..Len(body) : FieldPasses(body, called, i))
                 /\ ~Undeclared(body, called)) => Succeeded

\* The bound check of the last call: the value it was handed (Float hands
\* it the caller's value, String and Integer the coerced one), that value's
\* length in halves, and whether the call got as far as the bound check.
BoundValue == IF before.kind = "Float" THEN called ELSE outcome.res.data
BoundLength ==
    IF before.kind = "String" THEN 2 * Len(BoundValue.v) ELSE Halves(BoundValue)
BoundChecked ==
    /\ Returned
    /\ ~IsNone(called)
    /\ before.kind \in {"String", "Integer", "Float"}
    /\ (before.kind = "Float" => ~before.coerce)
    /\ ~(\E kind \in {"coerce", "enum"} : RejectedAs(kind, <<>>))
BelowMin ==
    /\ before.min # <<>>
    /\ IF before.minInclusive THEN BoundLength < 2 * before.min[1]
       ELSE BoundLength <= 2 * before.min[1]
AboveMax ==
    /\ before.max # <<>>
    /\ IF before.maxInclusive THEN BoundLength > 2 * before.max[1]
       ELSE BoundLength >= 2 * before.max[1]

\* C3: the bound check on a non-absent value of length L is exact at the
\* boundary: an inclusive min m fails (kind "min") iff L < m, an exclusive
\* one iff L <= m; an inclusive max M fails (kind "max") iff L > M, an
\* exclusive one iff L >= M (min is checked first); with no bound nothing
\* fails. Integer().min(0, False).max(2, False) accepts exactly 1.
C3_BoundsExact ==
    BoundChecked =>
        /\ RejectedAs("min", <<>>) <=> BelowMin
        /\ RejectedAs("max", <<>>) <=> (~BelowMin /\ AboveMax)
        /\ (~BelowMin /\ ~AboveMax) =>
                (Succeeded \/ (before.kind = "String" /\ RejectedAs("regex", <<>>)))
        /\ (/\ before.kind = "Integer" /\ ~before.coerce /\ before.enum = <<>>
            /\ before.min = <<0>> /\ ~before.minInclusive
            /\ before.max = <<2>> /\ ~before.maxInclusive
            /\ called.t = "int")
                => (Succeeded <=> called = IntV(1))

\* a value on an exclusive bound was rejected and its neighbour accepted
C3_AtBoundary ==
    /\ BoundChecked
    /\ before.kind = "Integer"
    /\ before.min = <<0>> /\ ~before.minInclusive
    /\ before.max = <<2>> /\ ~before.maxInclusive
    /\ called = IntV(2)
    /\ RejectedAs("max", <<>>)

\* C4: validate does not mutate its input: after the call, successful or
\* failed, the input holds the keys and values it held before; and a
\* successful Object or Array result is a new container, not the input
\* object.
C4_InputUntouched ==
    outcome.done =>
        /\ input = called
        /\ (Succeeded /\ before.kind \in {"Object", "Array"}) => ~outcome.alias

C7_EnumMembership ==
    (outcome.done /\ ~IsNone(called)) =>
        /\ (before.kind \in {"String", "Integer"} /\ Returned
            /\ ~RejectedAs("coerce", <<>>))
                => IF before.enum # <<>> /\ Len(before.enum[1]) >= 1
                   THEN RejectedAs("enum", <<>>)
                            <=> ~InList(outcome.res.data, before.enum[1])
                   ELSE ~RejectedAs("enum", <<>>)
        /\ legacy.check # <<>>
        /\ IF before.enum # <<>> /\ Len(before.enum[1]) >= 1
           THEN /\ legacy.exc = "none"
                /\ Valid(legacy.check[1]) <=> InList(called, before.enum[1])
                /\ ~Valid(legacy.check[1]) =>
                        /\ legacy.check[1].error[1].validation = "enum"
                        /\ legacy.check[1].error[1].path = <<>>
           ELSE before.enum = <<>> => Valid(legacy.check[1])

\* C8: with coercion disabled and a non-absent input, the coercion step
\* succeeds iff the input's runtime shape is exactly the target shape, and
\* then returns the input unchanged; otherwise validate fails with kind
\* "coerce" and an empty path.
C8_StrictShape ==
    (outcome.done /\ ~before.coerce /\ ~IsNone(called) /\ before.kind \in ScalarKinds)
        => IF called.t = TargetShape(before.kind)
           THEN /\ Returned
                /\ ~RejectedAs("coerce", <<>>)
                /\ Succeeded => outcome.res.data = called
           ELSE RejectedAs("coerce", <<>>)

\* C9: when the schema of a declared Object field rejects the field's value
\* with error e, Object.validate fails with e's message and kind and with
\* the path [fieldName] followed by e's path; through two Object levels the
\* path lists the two field names, the outer one first.
C9_NestedErrorPath ==
    ObjectCall =>
        LET body == BodyOf(before)
        IN \A i \in 1..Len(body) :
            (FirstFailing(body, called, i) /\ FieldRejects(body, called, i)) =>
                LET e == FieldResult(body, called, i).res.error[1]
                    inner == BodyOf(body[i].schema)
                    sub == GetItem(called, body[i].k)
                IN /\ Rejected
                   /\ outcome.res.error[1].message = e.message
                   /\ outcome.res.error[1].validation = e.validation
                   /\ outcome.res.error[1].path = <<body[i].k>> \o e.path
                   /\ (body[i].schema.kind = "Object" /\ sub.t = "dict") =>
                        \A j \in 1..Len(inner) :
                            (/\ FirstFailing(inner, sub, j)
                             /\ FieldRejects(inner, sub, j)
                             /\ inner[j].schema.kind \in ScalarKinds)
                                => outcome.res.error[1].path = <<body[i].k, inner[j].k>>

\* a scalar two Object levels down was rejected, under two different names
C9_TwoLevels ==
    /\ ObjectCall
    /\ Rejected
    /\ outcome.res.error[1].path = <<KeyA, KeyB>>
    /\ outcome.res.error[1].validation = "coerce"

\* C10: Object.validate looks at undeclared keys only after every declared
\* field has passed: then, with additional properties disallowed, an
\* undeclared key fails the call with kind "additionalProperties"; with them
\* allowed it never does; and when a declared field fails, that failure is
\* reported, not additionalProperties.
C10_AdditionalAfterDeclared ==
    ObjectCall =>
        LET body == BodyOf(before)
            allPass == \A i \in 1..Len(body) : FieldPasses(body, called, i)
            extra == Undeclared(body, called)
        IN /\ (allPass /\ ~before.allowAdditionalProperties /\ extra)
                => RejectedAs("additionalProperties", <<>>)
           /\ (allPass /\ (before.allowAdditionalProperties \/ ~extra)) => Succeeded
           /\ ~allPass => (Rejected /\ ~RejectedAs("additionalProperties", <<>>))

\* every declared field passed and an undeclared key was rejected
C10_UndeclaredRejected ==
    /\ ObjectCall
    /\ Len(BodyOf(before)) >= 1
    /\ \A i \in 1..Len(BodyOf(before)) : FieldPasses(BodyOf(before), called, i)
    /\ RejectedAs("additionalProperties", <<>>)

\* The elements of an Array call on a list, and how the child schema fares on
\* each of them.
ArrayCall == Returned /\ before.kind = "Array" /\ called.t = "list"
ElementResult(i) == Validate(before.item[1], called.v[i])
ElementValid(i) == ElementResult(i).exc = "none" /\ Valid(ElementResult(i).res)
ElementInvalid(i) ==
    /\ ElementResult(i).exc = "none"
    /\ ~Valid(ElementResult(i).res)
    /\ ElementResult(i).res.error # <<>>
FirstInvalid(i) == ElementInvalid(i) /\ \A j \in 1..(i - 1) : ElementValid(j)

\* C11: Array.validate validates the elements in index order and stops at
\* the first invalid one: the error returned is the child schema's error for
\* the lowest-index invalid element with "[]" put in front of its path, and
\* the elements behind it are left as they were; when every element is valid
\* the result is the list of the validated elements, in the input's order and
\* of the input's length.
C11_ArrayInIndexOrder ==
    ArrayCall =>
        /\ \A i \in 1..Len(called.v) : FirstInvalid(i) =>
                /\ Rejected
                /\ outcome.res.error # <<>>
                /\ outcome.res.error[1].message = ElementResult(i).res.error[1].message
                /\ outcome.res.error[1].validation = ElementResult(i).res.error[1].validation
                /\ outcome.res.error[1].path
                        = <<StrV(<<"[", "]">>)>> \o ElementResult(i).res.error[1].path
                /\ Len(input.v) = Len(called.v)
                /\ \A j \in (i + 1)..Len(called.v) : input.v[j] = called.v[j]
        /\ (\A i \in 1..Len(called.v) : ElementValid(i)) =>
                /\ Succeeded
                /\ outcome.res.data.t = "list"
                /\ Len(outcome.res.data.v) = Len(called.v)
                /\ \A i \in 1..Len(called.v) :
                        outcome.res.data.v[i] = Unwrap(ElementResult(i).res).val

\* a list of two elements the child schema rejects with different errors:
\* the first one's error is reported
C11_StopsAtFirst ==
    /\ ArrayCall
    /\ Len(called.v) = 2
    /\ FirstInvalid(1)
    /\ ElementInvalid(2)
    /\ ElementResult(1).res.error[1].message # ElementResult(2).res.error[1].message
    /\ Rejected
    /\ outcome.res.error[1].message = ElementResult(1).res.error[1].message
    /\ outcome.res.error[1].path[1] = StrV(<<"[", "]">>)

OneOfCall == Returned /\ before.kind = "OneOf"
AltResult(i) == Validate(before.alts[i], called)
AltAccepts(i) == AltResult(i).exc = "none" /\ Valid(AltResult(i).res)
AltRejects(i) ==
    /\ AltResult(i).exc = "none"
    /\ ~Valid(AltResult(i).res)
    /\ AltResult(i).res.error # <<>>

\* C13: OneOf.validate tries its alternatives in declared order and returns
\* the result of the first one that accepts the value, unchanged; when every
\* alternative rejects it, the result is one failure of kind "oneOf" whose
\* cause list holds, in declared order, the error of each alternative.
C13_OneOfFirstOrCauses ==
    OneOfCall =>
        /\ \A i \in 1..Len(before.alts) :
                (AltAccepts(i) /\ \A j \in 1..(i - 1) : AltRejects(j))
                    => outcome.res = AltResult(i).res
        /\ (\A i \in 1..Len(before.alts) : AltRejects(i)) =>
                /\ RejectedAs("oneOf", <<>>)
                /\ Len(outcome.res.error[1].cause) = Len(before.alts)
                /\ \A i \in 1..Len(before.alts) :
                        outcome.res.error[1].cause[i] = AltResult(i).res.error[1]

\* two alternatives reject the value with different errors
C13_BothRejected ==
    /\ OneOfCall
    /\ Len(before.alts) = 2
    /\ AltRejects(1) /\ AltRejects(2)
    /\ AltResult(1).res.error[1] # AltResult(2).res.error[1]
    /\ RejectedAs("oneOf", <<>>)
    /\ outcome.res.error[1].cause = <<AltResult(1).res.error[1], AltResult(2).res.error[1]>>

\* A declaration of an Object body passes on a value: a literal when the key
\* is present and the value under it equals the literal, a schema node as in
\* FieldPasses.
IsLiteral(body, i) == ~IsSchemaNode(body[i].schema)
LiteralEqual(body, value, i) ==
    HasKey(value, body[i].k) /\ PyEq(GetItem(value, body[i].k), body[i].schema)
DeclarationPasses(body, value, i) ==
    IF IsLiteral(body, i) THEN LiteralEqual(body, value, i) ELSE FieldPasses(body, value, i)

\* C14: a field of an Object declared with a literal must be present in the
\* input and equal to the literal: when the declarations before it pass, a
\* missing key makes the call fail, a value that differs makes it fail with
\* kind "equals", and when every declaration passes (and no undeclared key
\* is refused) the call succeeds.
C14_LiteralFieldEquals ==
    (outcome.done /\ before.kind = "Object" /\ called.t = "dict") =>
        LET body == BodyOf(before)
        IN /\ \A i \in 1..Len(body) :
                (IsLiteral(body, i) /\ \A j \in 1..(i - 1) : DeclarationPasses(body, called, j)) =>
                    /\ FieldMissing(body, called, i) => Rejected
                    /\ (~FieldMissing(body, called, i) /\ ~LiteralEqual(body, called, i)) =>
                            (Rejected /\ outcome.res.error # <<>>
                                      /\ outcome.res.error[1].validation = "equals")
           /\ ( /\ \E i \in 1..Len(body) : IsLiteral(body, i)
                /\ \A i \in 1..Len(body) : DeclarationPasses(body, called, i)
                /\ before.allowAdditionalProperties \/ ~Undeclared(body, called) )
                    => Succeeded

\* the configuration of a tree with every regex as the builder stored it
RECURSIVE Uncompiled(_)
Uncompiled(s) ==
    IF ~IsSchemaNode(s) THEN s ELSE
    [s EXCEPT !.regex = IF s.regex = <<>> THEN <<>>
                        ELSE <<[pattern |-> s.regex[1].pattern, compiled |-> FALSE]>>,
              !.body = IF s.body = <<>> THEN <<>>
                       ELSE <<[i \in 1..Len(s.body[1]) |->
                                [k |-> s.body[1][i].k, schema |-> Uncompiled(s.body[1][i].schema)]]>>,
              !.item = IF s.item = <<>> THEN <<>> ELSE <<Uncompiled(s.item[1])>>,
              !.alts = [i \in 1..Len(s.alts) |-> Uncompiled(s.alts[i])]]

\* a regex of the tree is held as text
RECURSIVE HoldsText(_)
HoldsText(s) ==
    /\ IsSchemaNode(s)
    /\ \/ s.regex # <<>> /\ ~s.regex[1].compiled
       \/ s.body # <<>> /\ \E i \in 1..Len(s.body[1]) : HoldsText(s.body[1][i].schema)
       \/ s.item # <<>> /\ HoldsText(s.item[1])
       \/ \E i \in 1..Len(s.alts) : HoldsText(s.alts[i])

TrueTexts == {<<"t", "r", "u", "e">>, <<"1">>, <<"y", "e", "s">>, <<"y">>}
FalseTexts == {<<"f", "a", "l", "s", "e">>, <<"0">>, <<"n", "o">>, <<"n">>}
\* a call of a coercing Boolean on a text
BooleanTextCall ==
    outcome.done /\ before.kind = "Boolean" /\ before.coerce /\ called.t = "str"

\* C16: a coercing Boolean handed a text coerces it to true exactly when the
\* lower-cased text is "true", "1", "yes" or "y", to false exactly when it is
\* "false", "0", "no" or "n", and otherwise the coercion, and with it the
\* call, fails with kind "coerce".
C16_BooleanTextCoercion ==
    BooleanTextCall =>
        LET c == CoerceValue(before, called, "bool")
            low == Lower(called.v)
        IN /\ c.exc = "none"
           /\ (Valid(c.res) /\ c.res.data = BoolV(TRUE)) <=> low \in TrueTexts
           /\ (Valid(c.res) /\ c.res.data = BoolV(FALSE)) <=> low \in FalseTexts
           /\ Valid(c.res) => c.res.data \in {BoolV(TRUE), BoolV(FALSE)}
           /\ low \notin (TrueTexts \cup FalseTexts) =>
                  /\ ~Valid(c.res) /\ c.res.error[1].validation = "coerce"
                  /\ RejectedAs("coerce", <<>>)

\* a text of the false table in mixed case was read as false
C16_NoIsFalse ==
    /\ BooleanTextCall /\ called.v = <<"N", "o">>
    /\ CoerceValue(before, called, "bool").res.data = BoolV(FALSE)

\* the same Object with its fields declared in the opposite order
Redeclared(s) ==
    IF s.body = <<>> THEN s
    ELSE [s EXCEPT !.body = <<[i \in 1..Len(s.body[1]) |-> s.body[1][Len(s.body[1]) + 1 - i]]>>]
\* the failure a declared field that does not pass contributes
FieldInvalid(body, value, i) ==
    ~FieldPasses(body, value, i) /\ (FieldMissing(body, value, i) \/ FieldRejects(body, value, i))
FieldFailure(body, value, i) ==
    IF FieldMissing(body, value, i)
    THEN ValidationError(<<Text("expected "), body[i].k, Text(" to be present")>>, <<>>, "required")
    ELSE Inherit(FieldResult(body, value, i).res.error[1], <<body[i].k>>)

\* C17: Object.validate reports exactly one failure, that of the first
\* declared field (in declaration order) that does not pass, also when later
\* fields are invalid too; with the two fields declared the other way round
\* and both invalid the other field's failure is reported; and the call
\* succeeds under one declaration order exactly when it succeeds under the
\* opposite one.
C17_FirstDeclaredFailure ==
    (outcome.done /\ before.kind = "Object" /\ called.t = "dict") =>
        LET body == BodyOf(before)
            other == Validate(Redeclared(before), called)
        IN /\ Returned =>
                \A i \in 1..Len(body) :
                    (FirstFailing(body, called, i) /\ FieldInvalid(body, called, i)) =>
                        (Rejected /\ outcome.res.error = <<FieldFailure(body, called, i)>>)
           /\ Succeeded <=> (other.exc = "none" /\ Valid(other.res))
           /\ (/\ Returned /\ Len(body) = 2
                /\ FieldInvalid(body, called, 1) /\ FieldInvalid(body, called, 2)) =>
                    /\ other.exc = "none"
                    /\ other.res.error = <<FieldFailure(body, called, 2)>>

\* both declared fields are invalid, with different failures, and the
\* failure of the first declared one was reported
C17_BothInvalid ==
    /\ ObjectCall /\ Len(BodyOf(before)) = 2
    /\ FieldInvalid(BodyOf(before), called, 1) /\ FieldInvalid(BodyOf(before), called, 2)
    /\ FieldRejects(BodyOf(before), called, 1)
    /\ outcome.res.error = <<FieldFailure(BodyOf(before), called, 1)>>
    /\ FieldFailure(BodyOf(before), called, 1) # FieldFailure(BodyOf(before), called, 2)

\* C18: expect on the result of a successful validation returns the
\* validated value; on a failed one it raises the carried ValidationError
\* when no message is supplied and a ValueError carrying the caller's message
\* when one is; unwrap on a failed result raises; unwrapOr(d) on a failed
\* result returns d.
C18_ExpectUnwrap ==
    /\ use.op = "expect" =>
          /\ Valid(outcome.res) => (use.exc = "none" /\ use.val = outcome.res.data)
          /\ (~Valid(outcome.res) /\ IsNone(use.arg)) =>
                (use.exc = "ValidationError" /\ use.val = outcome.res.error[1])
          /\ (~Valid(outcome.res) /\ ~IsNone(use.arg)) =>
                (use.exc = "ValueError" /\ use.val = use.arg)
    /\ (use.op = "unwrap" /\ ~Valid(outcome.res)) => use.exc # "none"
    /\ (use.op = "unwrapOr" /\ ~Valid(outcome.res)) => (use.exc = "none" /\ use.val = use.arg)

\* The key / index of the last accessor call exists in the data (an index i
\* of a list of n elements exists when -n <= i < n), and the value stored
\* under it.
AccessIndex == Halves(access.key) \div 2
AccessExists ==
    IF access.cls = "JDict" THEN HasKey(access.data, access.key)
    ELSE 0 - Len(access.data.v) <= AccessIndex /\ AccessIndex < Len(access.data.v)
AccessStored ==
    IF access.cls = "JDict" THEN GetItem(access.data, access.key)
    ELSE access.data.v[IF AccessIndex < 0 THEN Len(access.data.v) + AccessIndex + 1
                       ELSE AccessIndex + 1]
AccessTyped == AccessExists /\ IsInstance(AccessStored, access.type)

\* C19: JDict.ensure and JList.ensure never raise; they return the stored
\* value when the key / index exists and the stored value is of the type,
\* and otherwise the supplied default (a value of the type, as Python
\* compares values), or the type's empty value when none was supplied.
C19_EnsureNeverRaises ==
    access.op = "ensure" =>
        /\ access.exc = "none"
        /\ IF AccessTyped THEN access.val = AccessStored
           ELSE IF IsNone(access.default) THEN access.val = EmptyOf(access.type)
           ELSE PyEq(access.val, access.default) /\ IsInstance(access.val, access.type)

\* ensure(3, int) on a list of three elements returned 0
C19_PastTheEnd ==
    /\ access.op = "ensure" /\ access.cls = "JList"
    /\ Len(access.data.v) = 3 /\ access.key = IntV(3) /\ access.type = "int"
    /\ IsNone(access.default)
    /\ access.val = IntV(0)

\* C20: JDict.assertGet and JList.assertGet return the stored value when the
\* key / index exists and the stored value is of the type, and in every
\* other case raise AssertionError and nothing else.
C20_AssertGetAsserts ==
    access.op = "assertGet" =>
        IF AccessTyped THEN access.exc = "none" /\ access.val = AccessStored
        ELSE access.exc = "AssertionError"

\* Following a chain link by link from a value: a name indexes a mapping
\* that has it, an index a list that is long enough; [ok, val].
RECURSIVE Locate(_, _, _)
Locate(value, links, i) ==
    IF i > Len(links) THEN [ok |-> TRUE, val |-> value]
    ELSE IF links[i].index
    THEN IF value.t = "list" /\ links[i].key.v < Len(value.v)
         THEN Locate(value.v[links[i].key.v + 1], links, i + 1)
         ELSE [ok |-> FALSE, val |-> NoneV]
    ELSE IF value.t = "dict" /\ HasKey(value, links[i].key)
         THEN Locate(GetItem(value, links[i].key), links, i + 1)
         ELSE [ok |-> FALSE, val |-> NoneV]

\* C21: JChain.optionalGet and optionalCast follow the chain link by link;
\* when every link resolves they return the located value (optionalGet only
\* when it is of the type, else None; optionalCast after casting, None when
\* the cast fails), and when a link does not resolve they return None; they
\* never raise.
C21_ChainFollowsLinks ==
    access.op \in {"chain.optionalGet", "chain.optionalCast"} =>
        LET located == Locate(access.data, access.chain, 1)
            cast == Cast(access.type, located.val)
        IN /\ access.exc = "none"
           /\ access.val =
                IF ~located.ok THEN NoneV
                ELSE IF access.op = "chain.optionalGet"
                THEN IF IsInstance(located.val, access.type) THEN located.val ELSE NoneV
                ELSE IF cast.exc = "none" THEN cast.val ELSE NoneV

\* C22: JListIterator.optionalCast(type) returns one entry per element of
\* the list, in order, entry i being JList.optionalCast(i, type): the element
\* cast to the type, None where the cast fails.
C22_IteratorCasts ==
    access.op = "iterator.optionalCast" =>
        /\ access.exc = "none"
        /\ access.val.t = "list"
        /\ Len(access.val.v) = Len(access.data.v)
        /\ \A i \in 1..Len(access.data.v) :
              access.val.v[i] = OptionalCast(access.data, IntV(i - 1), access.type).val


-----------------------------------------------------------------------------
(* The stages of a scalar validate, each one taken on the coerced value.    *)

\* what _coerceValue makes of the last call's input
Coerced == CoerceValue(before, called, TargetShape(before.kind))
\* the value the later stages are to look at
StageValue == Coerced.res.data
StageLength ==
    IF before.kind = "String" THEN 2 * Len(StageValue.v) ELSE Halves(StageValue)
\* the kind of the earliest stage the coerced value fails, "ok" when none
StageKind ==
    IF ~Valid(Coerced.res) THEN "coerce"
    ELSE IF before.enum # <<>> /\ before.enum[1] # <<>> /\ ~InList(StageValue, before.enum[1])
    THEN "enum"
    ELSE IF /\ before.kind # "Boolean"
            /\ before.min # <<>>
            /\ IF before.minInclusive THEN StageLength < 2 * before.min[1]
               ELSE StageLength <= 2 * before.min[1]
    THEN "min"
    ELSE IF /\ before.kind # "Boolean"
            /\ before.max # <<>>
            /\ IF before.maxInclusive THEN StageLength > 2 * before.max[1]
               ELSE StageLength >= 2 * before.max[1]
    THEN "max"
    ELSE IF /\ before.kind = "String"
            /\ before.regex # <<>>
            /\ ~Match(before.regex[1].pattern, StageValue.v)
    THEN "regex"
    ELSE "ok"
\* the last call was a scalar validate of a present value whose coercion
\* went through without raising
StagedCall ==
    /\ outcome.done
    /\ before.kind \in ScalarKinds
    /\ ~IsNone(called)
    /\ Coerced.exc = "none"

\* C23: a scalar validate runs coercion, enum check, bound check and the
\* type's own rule in this order, every stage after coercion on the coerced
\* value, and reports the earliest failing stage only: the call returns, it
\* succeeds when no stage fails, and it fails with the kind of the first
\* failing stage otherwise (enum before min/max, min/max before regex).
C23_StagesInOrder ==
    StagedCall =>
        /\ Returned
        /\ IF StageKind = "ok" THEN Succeeded ELSE RejectedAs(StageKind, <<>>)


\* the value the last call handed to its enum and bound checks: String and
\* Integer the unwrapped coercion result, Float and Boolean the input
CheckedValue ==
    IF before.kind \in {"Float", "Boolean"} THEN called ELSE Coerced.res.data
\* the results the validation steps of the last scalar call returned: the
\* coercion's, the enum check's when the coercion succeeded, the bound
\* check's when the type has bounds and the enum check succeeded and the
\* bound check returned
StepResults ==
    IF Coerced.exc # "none" THEN {}
    ELSE {Coerced.res} \cup
         (IF ~Valid(Coerced.res) THEN {}
          ELSE {EnumValidate(before, CheckedValue)} \cup
               (IF \/ ~Valid(EnumValidate(before, CheckedValue))
                   \/ before.kind = "Boolean"
                   \/ LengthValidate(before, CheckedValue).exc # "none"
                THEN {}
                ELSE {LengthValidate(before, CheckedValue).res}))

\* C24: every successful result holding None that a validation step
\* (coercion, enum check, bound check) returns for a nullable schema carries
\* the nullable marker.
C24_NoneCarriesMarker ==
    (outcome.done /\ before.kind \in ScalarKinds /\ before.nullable) =>
        \A r \in StepResults : (Valid(r) /\ IsNone(r.data)) => r.nullable


\* C25: result.update(other) returns without raising; when other failed,
\* result is failed and its error is other's error, path included; when
\* other succeeded, result's value is other's value and result's state and
\* error are what they were. This holds of result.py's update and of
\* schema.py's.
C25_UpdateMerges ==
    use.op = "update" =>
        /\ use.exc = "none"
        /\ \A after \in {use.val, legacy.check[1]} :
              IF ~Valid(use.arg)
              THEN ~Valid(after) /\ after.error = use.arg.error
              ELSE /\ after.data = use.arg.data
                   /\ after.state = use.res.state
                   /\ after.error = use.res.error


\* the path after the prefixes were put in front one after the other
RECURSIVE PrefixedPath(_, _)
PrefixedPath(prefixes, path) ==
    IF prefixes = <<>> THEN path
    ELSE PrefixedPath(Tail(prefixes), prefixes[1] \o path)

\* C26: inherit(e, p) returns an error whose path is p followed by e's path
\* and whose message, kind and cause list are e's, and e keeps its own path;
\* inherit(inherit(e, p), q) has the path q ++ p ++ e.path.
C26_InheritPrefixes ==
    use.op = "inherit" =>
        LET e == use.res.error[1]
        IN /\ use.val.path = PrefixedPath(use.arg, e.path)
           /\ Len(use.arg) = 1 => use.val.path = use.arg[1] \o e.path
           /\ Len(use.arg) = 2 => use.val.path = use.arg[2] \o use.arg[1] \o e.path
           /\ use.val.message = e.message
           /\ use.val.validation = e.validation
           /\ use.val.cause = e.cause
           /\ e \in ResultErrors

\* an error with a path and a cause list was inherited twice, by non-empty paths
C26_InheritedTwice ==
    /\ use.op = "inherit"
    /\ Len(use.arg) = 2
    /\ use.arg[1] # <<>>
    /\ use.arg[2] # <<>>
    /\ use.arg[1] # use.arg[2]
    /\ use.res.error[1].path # <<>>
    /\ use.res.error[1].cause # <<>>
    /\ use.val.path = use.arg[2] \o use.arg[1] \o use.res.error[1].path


\* C27: after any sequence of builder calls on a schema node, optional
\* implies nullable and a configured default implies nullable. This holds
\* of base.py's node and of schema.py's.
C27_OptionalIsNullable ==
    /\ schema.optional => schema.nullable
    /\ schema.default # NoneV => schema.nullable
    /\ legacy.optional => LegacyNullable(legacy)


\* the builder calls of each modifier that the node takes, and what a call
\* makes of the node
ModifierNames == <<"nullable", "optional", "default", "coerce", "min", "max", "enum">>
BuilderCalls(s, name) ==
    CASE name \in {"nullable", "optional", "coerce"} -> {[m |-> name, a |-> <<>>]}
      [] name = "default" -> {[m |-> name, a |-> <<v>>] : v \in DefaultValues}
      [] name \in {"min", "max"} ->
            IF HasLength(s)
            THEN {[m |-> name, a |-> <<n, inclusive>>] : n \in 0..MaxBound, inclusive \in BOOLEAN}
            ELSE {}
      [] name = "enum" ->
            IF HasEnum(s) THEN {[m |-> name, a |-> <<values>>] : values \in EnumChoices}
            ELSE {}
BuilderCall(s, c) ==
    CASE c.m = "nullable" -> nullable(s)
      [] c.m = "optional" -> optional(s)
      [] c.m = "coerce" -> coerce(s)
      [] c.m = "default" -> default(s, c.a[1])
      [] c.m = "min" -> min(s, c.a[1], c.a[2])
      [] c.m = "max" -> max(s, c.a[1], c.a[2])
      [] c.m = "enum" -> enum(s, c.a[1])

\* C28: two builder calls that configure different modifiers commute: on the
\* node a validate call found, made in either order they leave the same
\* configuration, and (for a node that the two calls leave with at most
\* MaxModifiers modifiers) validate of the two nodes on the call's input
\* does the same (result, exception, node afterwards).
C28_BuildersCommute ==
    (outcome.done /\ before.kind \in ScalarKinds) =>
        \A i \in 1..Len(ModifierNames) : \A j \in (i + 1)..Len(ModifierNames) :
            \A f \in BuilderCalls(before, ModifierNames[i]) :
                \A g \in BuilderCalls(before, ModifierNames[j]) :
                    With(BuilderCall(BuilderCall(before, f), g), LAMBDA fg :
                    With(BuilderCall(BuilderCall(before, g), f), LAMBDA gf :
                        /\ fg = gf
                        /\ Modifiers(before) + 2 <= MaxModifiers
                              => Validate(fg, called) = Validate(gf, called)))

\* the node of the claim's example, String().nullable().min(3).enum("test")
\* with the values of the model, was validated: however its three calls
\* were ordered, this is the node they built
C28_ThreeModifiers ==
    /\ outcome.done
    /\ before = enum(min(nullable(NewSchema("String")), 2, TRUE), <<StrV(<<"a", "b">>)>>)
    /\ before = nullable(min(enum(NewSchema("String"), <<StrV(<<"a", "b">>)>>), 2, TRUE))
    /\ called = StrV(<<"a", "b">>)
    /\ Succeeded


\* schema.valid(v), schema.error(v) (an Optional) and schema.expect(v) with
\* no message: validate(v).valid(), validate(v).error, validate(v).expect()
SchemaValid == Valid(outcome.res)
SchemaError == outcome.res.error
SchemaExpect == Expect(outcome.res, NoneV)

\* C29: whenever validate returns, valid(v) is true exactly when error(v) is
\* None: a successful result carries no error, a failed one carries a
\* ValidationError; and expect(v) without a message raises a
\* ValidationError, the one error(v) returns, exactly when valid(v) is
\* false.
C29_ValidIffNoError ==
    Returned =>
        /\ SchemaValid <=> SchemaError = <<>>
        /\ SchemaExpect.exc = "ValidationError" <=> ~SchemaValid
        /\ ~SchemaValid => SchemaExpect.val = SchemaError[1]

\* a call on an Object failed on a field: error(v) is the field's error
\* under the field's key, and expect(v) raises it
C29_FieldErrorRaised ==
    /\ Returned
    /\ before.kind = "Object"
    /\ ~SchemaValid
    /\ SchemaError # <<>>
    /\ SchemaError[1].path # <<>>
    /\ SchemaError[1].validation = "coerce"
    /\ SchemaExpect.exc = "ValidationError"
    /\ SchemaExpect.val = SchemaError[1]


\* the size of a value: one for the value itself, and the sizes of its
\* characters, elements, keys and values
RECURSIVE ValueSize(_), SumSizes(_)
SumSizes(xs) ==
    IF xs = <<>> THEN 0 ELSE ValueSize(Head(xs)) + SumSizes(Tail(xs))
ValueSize(x) ==
    CASE x.t = "str" -> 1 + Len(x.v)
      [] x.t = "list" -> 1 + SumSizes(x.v)
      [] x.t = "dict" ->
            1 + SumSizes([i \in 1..Len(x.v) |-> x.v[i].k])
              + SumSizes([i \in 1..Len(x.v) |-> x.v[i].val])
      [] OTHER -> 1
\* the child nodes of a schema node
Children(sch) ==
    CASE sch.kind = "Object" -> {Declared(sch)[i].schema : i \in 1..Len(Declared(sch))}
      [] sch.kind = "Array" -> {sch.item[1]}
      [] OTHER -> {}
\* every call on the stack was made by the call below it on one of its
\* child nodes and on a smaller value, from inside a loop that has not run
\* past its items; and the step the call takes next changes the stack
StackDescends ==
    /\ \A k \in 1..(Len(run.stack) - 1) :
          /\ run.stack[k + 1].sch \in Children(run.stack[k].sch)
          /\ Size(run.stack[k + 1].sch) < Size(run.stack[k].sch)
          /\ ValueSize(run.stack[k + 1].val) < ValueSize(run.stack[k].val)
          /\ run.stack[k].i <= Len(run.stack[k].items)
    /\ \A k \in 1..Len(run.stack) :
          /\ run.stack[k].i <= Len(run.stack[k].items) + 1
          /\ Len(run.stack[k].items) <= ValueSize(run.stack[k].val) + Size(run.stack[k].sch)
    /\ Len(run.stack) <= MaxNodes
    /\ StepFrames(run.stack) # run.stack

\* C30: validate terminates on every finite schema tree and finite input:
\* each recursive call is made on a child of the caller's schema node and on
\* a value smaller than the caller's, every loop stays within its finite
\* items, and a call that was started comes to its end.
C30_ValidateTerminates ==
    /\ [](run.active => StackDescends)
    /\ (run.active ~> ~run.active)

\* the call on an Object is in the call on its Array field, which is in the
\* call on the array's second element
C30_ThreeDeep ==
    /\ run.active
    /\ Len(run.stack) = 3
    /\ run.stack[1].phase = "fields"
    /\ run.stack[2].phase = "items"
    /\ run.stack[2].i = 2

=============================================================================
